---- MODULE Spec2Model ----
(***************************************************************************)
(* comex-document-analyzer: the field resolution cascade                   *)
(* (extractors/field_extractor.py), the cross-document reconciliation      *)
(* (app.py, compare_docs) and the session registry behind the upload and   *)
(* analyze endpoints (app.py, process_doc / analyze).                      *)
(*                                                                         *)
(* Numbers that are floats in the source are kept exact: a confidence is   *)
(* an integer number of hundredths (0.92 is 92), a completeness ratio is   *)
(* the pair [num, den] of the two integers the source divides, and a       *)
(* comparison ratio < m is num * 100 < m * den.  IEEE division is          *)
(* correctly rounded, so filled / total and the literal 0.6 (or 0.8) are   *)
(* the same double whenever the quotient is exactly 6/10 (or 8/10): the    *)
(* integer comparison decides exactly what the float comparison decides.   *)
(***************************************************************************)
EXTENDS Naturals, Integers, Sequences, FiniteSets, TLC

VARIABLES
  REQUIRED_FIELDS_BY_DOC,   \* app.py module constant used by compare_docs
  session_docs,             \* the argument of one compare_docs call
  cmp_pc,                   \* position of that call
  acc,                      \* its locals: matrix, divergences, doc_completeness, ...
  result,                   \* its return value
  arg_raw_text,             \* parse_fields: raw_text, as the lines splitlines() yields
  arg_doc_type,             \* parse_fields: doc_type
  arg_threshold,            \* parse_fields: confidence_threshold, in hundredths
  arg_provider,             \* what the inference provider does when it is called
  pf_pc,                    \* position of the parse_fields call
  pf_layers,                \* its locals layer_a, layer_b, layer_c
  pf_result,                \* its return value
  pf_sent,                  \* the requests this call sent to the provider, oldest first
  pf_prev,                  \* how the earlier calls with these arguments ended
  SESSIONS,                 \* app.py: session id -> (role -> DocumentData)
  now,                      \* the clock datetime.utcnow() reads
  responses,                \* process_doc's responses, oldest first: status and, for 200, the record
  an_sid,                   \* analyze: the session id of the request
  an_i,                     \* analyze: loop index inside compare_docs
  seen                      \* the states the analysed session map went through

reconcileVars == <<REQUIRED_FIELDS_BY_DOC, session_docs, cmp_pc, acc, result>>

resolveVars ==
  <<arg_raw_text, arg_doc_type, arg_threshold, arg_provider, pf_pc, pf_layers, pf_result,
    pf_sent, pf_prev>>

serverVars == <<SESSIONS, now, responses, an_sid, an_i, seen>>

vars == <<reconcileVars, resolveVars, serverVars>>

(***************************************************************************)
(* Generic helpers.                                                        *)
(***************************************************************************)
Range(s) == {s[i] : i \in DOMAIN s}

RECURSIVE SeqOfSet(_)
SeqOfSet(S) == IF S = {} THEN <<>> ELSE LET x == CHOOSE y \in S : TRUE IN <<x>> \o SeqOfSet(S \ {x})

\* [x for x in s if P(x)], order kept
RECURSIVE Filter(_, _)
Filter(s, keep) ==
  IF s = <<>> THEN <<>>
  ELSE (IF Head(s) \in keep THEN <<Head(s)>> ELSE <<>>) \o Filter(Tail(s), keep)

(***************************************************************************)
(* field_extractor.py: the closed vocabulary of fields.                    *)
(***************************************************************************)
CANONICAL_FIELDS ==
  << "document_number", "invoice_number", "packing_list_number", "bl_number",
     "issue_date", "shipment_date", "issue_or_shipment_date", "po_number",
     "shipper", "consignee", "consignee_cnpj", "goods_description",
     "freight_value", "freight_term", "origin_country", "provenance_country",
     "acquisition_country", "destination_country", "pol", "pod",
     "incoterm", "currency", "net_weight", "gross_weight",
     "volume_cbm", "package_count", "ncm", "total_value",
     "etd", "eta" >>

FieldSet == Range(CANONICAL_FIELDS)

(***************************************************************************)
(* app.py: the comparative fields, in matrix order.                        *)
(***************************************************************************)
COMPARATIVE_FIELDS ==
  << [key |-> "document_number", label |-> "Número do documento"],
     [key |-> "issue_or_shipment_date", label |-> "Data de Emissão / Embarque"],
     [key |-> "consignee", label |-> "Importador / Consignee"],
     [key |-> "consignee_cnpj", label |-> "CNPJ do Importador / Consignee"],
     [key |-> "shipper", label |-> "Exportador / Shipper"],
     [key |-> "total_value", label |-> "Valor total das invoices"],
     [key |-> "po_number", label |-> "Número da Ordem de Compra"],
     [key |-> "goods_description", label |-> "Descrição da Mercadoria"],
     [key |-> "freight_value", label |-> "Valor do frete"],
     [key |-> "freight_term", label |-> "Condição do frete"],
     [key |-> "incoterm", label |-> "INCOTERM"],
     [key |-> "origin_country", label |-> "País de Origem"],
     [key |-> "provenance_country", label |-> "País de Procedência"],
     [key |-> "acquisition_country", label |-> "País de Aquisição"],
     [key |-> "pol", label |-> "Porto de carregamento (POL)"],
     [key |-> "pod", label |-> "Porto de descarga (POD)"],
     [key |-> "net_weight", label |-> "Peso líquido total"],
     [key |-> "gross_weight", label |-> "Peso bruto total"],
     [key |-> "volume_cbm", label |-> "Cubagem"],
     [key |-> "package_count", label |-> "Quantidade de Volumes"],
     [key |-> "ncm", label |-> "NCMs"] >>

\* The three names below are read by compare_docs and defined nowhere in
\* app.py; they are taken from the specification (section 4.3).
DOC_TYPES == <<"invoice", "packing_list", "bl">>

DocTypeSet == Range(DOC_TYPES)

\* 0.6, in hundredths
MIN_COMPARATIVE_COMPLETENESS_RATIO == 60

\* 0.8, in hundredths
MIN_REQUIRED_COMPLETENESS_RATIO == 80

\* app.py:305 spells the roles out in the matrix loop
MatrixRoles == <<"invoice", "packing_list", "bl">>

(***************************************************************************)
(* str.lower() on the values the bounded documents carry.                  *)
(***************************************************************************)
Lower(v) ==
  CASE v = "INV-001" -> "inv-001"
    [] v = "DOC-9" -> "doc-9"
    [] v = "ACME" -> "acme"
    [] v = "EXPORT LTDA" -> "export ltda"
    [] v = "PO-1" -> "po-1"
    [] v = "PARTS" -> "parts"
    [] v = "PREPAID" -> "prepaid"
    [] v = "FOB" -> "fob"
    [] v = "CIF" -> "cif"
    [] v = "BR" -> "br"
    [] v = "SANTOS" -> "santos"
    [] v = "HAMBURG" -> "hamburg"
    [] v = "LLM-0001" -> "llm-0001"
    [] v = "LLM-DOC" -> "llm-doc"
    [] v = "LLM PORT" -> "llm port"
    [] v = "USD" -> "usd"
    [] OTHER -> v

(***************************************************************************)
(* app.py: DocumentData and the reads compare_docs makes of it.            *)
(***************************************************************************)
\* doc.fields.get(key, {}).get("value", "")
FieldValue(doc, key) ==
  IF key \in DOMAIN doc.fields THEN doc.fields[key].value ELSE ""

\* first truthy value among keys, "" when there is none
RECURSIVE FirstValue(_, _)
FirstValue(doc, keys) ==
  IF keys = <<>> THEN ""
  ELSE IF FieldValue(doc, Head(keys)) # "" THEN FieldValue(doc, Head(keys))
  ELSE FirstValue(doc, Tail(keys))

DocNumberFallbackOrder_NoRoleField(doc_type) == <<"document_number">>

DocNumberFallbackOrder(doc_type) ==
  CASE doc_type = "invoice" -> <<"invoice_number", "document_number">>
    [] doc_type = "packing_list" -> <<"packing_list_number", "document_number">>
    [] doc_type = "bl" -> <<"bl_number", "document_number">>
    [] OTHER -> <<"document_number">>

DateFallbackOrder ==
  <<"issue_date", "shipment_date", "issue_or_shipment_date", "etd", "eta">>

_get_value_for_comparative_field(doc, doc_type, field_key) ==
  IF field_key = "document_number" THEN FirstValue(doc, DocNumberFallbackOrder(doc_type))
  ELSE IF field_key = "issue_or_shipment_date" THEN FirstValue(doc, DateFallbackOrder)
  ELSE FieldValue(doc, field_key)

\* session_docs.get(doc_type); val = ... if doc else ""
SessionValue(sd, doc_type, field_key) ==
  IF doc_type \in DOMAIN sd
  THEN _get_value_for_comparative_field(sd[doc_type], doc_type, field_key)
  ELSE ""

\* REQUIRED_FIELDS_BY_DOC.get(doc_type, [])
RequiredFields(doc_type) ==
  IF doc_type \in DOMAIN REQUIRED_FIELDS_BY_DOC THEN REQUIRED_FIELDS_BY_DOC[doc_type] ELSE <<>>

(***************************************************************************)
(* Findings.  A finding is the f-string of the source with its             *)
(* interpolated values kept apart: kind is the fixed text, and doc, field, *)
(* filled, total, names are what the source formats into it.               *)
(***************************************************************************)
Finding(kind, doc, fld, filled, total, names) ==
  [kind |-> kind, doc |-> doc, field |-> fld, filled |-> filled, total |-> total, names |-> names]

DivergenceFinding(label) == Finding("Divergência no campo", "", label, 0, 0, <<>>)

MissingDocsFinding(missing_docs) ==
  Finding("Pendência: documentos ausentes para análise cruzada", "", "", 0, 0, missing_docs)

ComparativePendency(doc_type, filled, total) ==
  Finding("Pendência de completude", doc_type, "", filled, total, <<>>)

RequiredPendency_SwappedCounts(doc_type, filled, total) ==
  Finding("Pendência de completude obrigatória", doc_type, "", total - filled, total, <<>>)

RequiredPendency(doc_type, filled, total) ==
  Finding("Pendência de completude obrigatória", doc_type, "", filled, total, <<>>)

MissingRequiredPendency(doc_type, missing) ==
  Finding("Pendência de campos obrigatórios", doc_type, "", 0, 0, missing)

OcrAlert(low_quality_docs) ==
  Finding("Alerta de OCR", "", "", 0, 0, low_quality_docs)

(***************************************************************************)
(* app.py: compare_docs, statement by statement.  Each step below takes    *)
(* the locals built so far (a) and the session map as it is when the step  *)
(* runs (sd).                                                              *)
(***************************************************************************)
Ratio(num, den) == [num |-> num, den |-> den]

\* ratio < minimum, minimum in hundredths
RatioBelow_Inclusive(r, minimum) == r.num * 100 <= minimum * r.den

RatioBelow(r, minimum) == r.num * 100 < minimum * r.den

\* lines 282-299: doc_completeness
InitMetrics(sd, doc_type) ==
  [ total_comparative_fields |-> Len(COMPARATIVE_FIELDS),
    filled_comparative_fields |-> 0,
    comparative_completeness_ratio |-> Ratio(0, 1),
    minimum_comparative_ratio |-> MIN_COMPARATIVE_COMPLETENESS_RATIO,
    total_required_fields |-> Len(RequiredFields(doc_type)),
    filled_required_fields |-> 0,
    required_completeness_ratio |-> Ratio(0, 1),
    minimum_required_ratio |-> MIN_REQUIRED_COMPLETENESS_RATIO,
    below_minimum |-> FALSE,
    below_required_minimum |-> FALSE,
    required_fields |-> RequiredFields(doc_type),
    missing_required_fields |-> <<>>,
    document_present |-> doc_type \in DOMAIN sd ]

\* lines 280-299
InitCompare(sd) ==
  [ matrix |-> <<>>,
    divergences |-> <<>>,
    doc_completeness |-> [d \in DocTypeSet |-> InitMetrics(sd, d)],
    low_completeness_detected |-> FALSE ]

\* line 314: len(set(values)) > 1, values the lowered non-empty cells
RowDiverges_CaseSensitive(vals) ==
  Cardinality({vals[i] : i \in {j \in DOMAIN vals : vals[j] # ""}}) > 1

RowDiverges(vals) ==
  Cardinality({Lower(vals[i]) : i \in {j \in DOMAIN vals : vals[j] # ""}}) > 1

\* lines 301-315, one pass of the loop over COMPARATIVE_FIELDS
RowStep(a, sd, i) ==
  LET field_meta == COMPARATIVE_FIELDS[i]
      vals == [k \in DOMAIN MatrixRoles |-> SessionValue(sd, MatrixRoles[k], field_meta.key)]
      row == [field |-> field_meta.label,
              invoice |-> vals[1], packing_list |-> vals[2], bl |-> vals[3]]
      bump(d) == IF \E k \in DOMAIN MatrixRoles : MatrixRoles[k] = d /\ vals[k] # ""
                 THEN 1 ELSE 0
  IN [a EXCEPT
        !.matrix = Append(@, row),
        !.doc_completeness =
            [d \in DocTypeSet |->
               [@[d] EXCEPT !.filled_comparative_fields = @ + bump(d)]],
        !.divergences =
            IF RowDiverges(vals) THEN Append(@, DivergenceFinding(field_meta.label)) ELSE @]

\* line 317
MissingDocs_AllRoles(sd) == DOC_TYPES

MissingDocs(sd) == Filter(DOC_TYPES, DocTypeSet \ DOMAIN sd)

\* lines 317-319
MissingDocsStep(a, sd) ==
  IF MissingDocs(sd) # <<>>
  THEN [a EXCEPT !.divergences = Append(@, MissingDocsFinding(MissingDocs(sd)))]
  ELSE a

\* lines 332-337
RECURSIVE MissingRequired(_, _, _)
MissingRequired(sd, doc_type, required) ==
  IF required = <<>> THEN <<>>
  ELSE (IF SessionValue(sd, doc_type, Head(required)) = "" THEN <<Head(required)>> ELSE <<>>)
       \o MissingRequired(sd, doc_type, Tail(required))

\* line 329
ComparativeRatio(filled, total) == IF total # 0 THEN Ratio(filled, total) ELSE Ratio(0, 1)

\* lines 340-343
RequiredRatio_CountsMissing(missing_count, total) ==
  IF total # 0 THEN Ratio(missing_count, total) ELSE Ratio(1, 1)

RequiredRatio(missing_count, total) ==
  IF total # 0 THEN Ratio(total - missing_count, total) ELSE Ratio(1, 1)

\* lines 322-370, one pass of the loop over DOC_TYPES
CompletenessStep(a, sd, doc_type) ==
  LET m0 == a.doc_completeness[doc_type] IN
  IF ~m0.document_present THEN a
  ELSE
    LET total_fields == m0.total_comparative_fields
        filled_fields == m0.filled_comparative_fields
        cratio == ComparativeRatio(filled_fields, total_fields)
        missing == MissingRequired(sd, doc_type, m0.required_fields)
        total_required == m0.total_required_fields
        rratio == RequiredRatio(Len(missing), total_required)
        m1 == [m0 EXCEPT
                 !.comparative_completeness_ratio = cratio,
                 !.below_minimum = RatioBelow(cratio, MIN_COMPARATIVE_COMPLETENESS_RATIO),
                 !.missing_required_fields = missing,
                 !.filled_required_fields = total_required - Len(missing),
                 !.required_completeness_ratio = rratio,
                 !.below_required_minimum = RatioBelow(rratio, MIN_REQUIRED_COMPLETENESS_RATIO)]
        d1 == IF m1.below_minimum
              THEN Append(a.divergences, ComparativePendency(doc_type, filled_fields, total_fields))
              ELSE a.divergences
        d2 == IF m1.below_required_minimum
              THEN Append(d1, RequiredPendency(doc_type, m1.filled_required_fields, total_required))
              ELSE d1
        d3 == IF missing # <<>>
              THEN Append(d2, MissingRequiredPendency(doc_type, missing))
              ELSE d2
    IN [a EXCEPT
          !.doc_completeness[doc_type] = m1,
          !.divergences = d3,
          !.low_completeness_detected = @ \/ m1.below_minimum \/ m1.below_required_minimum]

\* line 372: session_docs.values() in insertion order; the order of the
\* names inside the alert is the only thing the insertion order decides,
\* and the alert is read here as the set of names it lists.
LowQualityDocs_None(sd) == <<>>

LowQualityDocs(sd) ==
  SeqOfSet({sd[d].doc_type : d \in {e \in DOMAIN sd : sd[e].low_ocr_confidence}})

\* lines 372-376
LowQualityStep(a, sd) ==
  IF LowQualityDocs(sd) # <<>>
  THEN [a EXCEPT !.divergences = Append(@, OcrAlert(LowQualityDocs(sd)))]
  ELSE a

\* line 378
Status_OnlyCompleteness(a) ==
  IF a.low_completeness_detected THEN "Com divergências" ELSE "Aprovado"

Status(a) ==
  IF a.divergences # <<>> \/ a.low_completeness_detected THEN "Com divergências" ELSE "Aprovado"

\* lines 378-384
FinishCompare(a) ==
  [ status |-> Status(a),
    matrix |-> a.matrix,
    divergences |-> a.divergences,
    completeness |-> a.doc_completeness ]

RECURSIVE RowsFrom(_, _, _)
RowsFrom(a, sd, i) ==
  IF i > Len(COMPARATIVE_FIELDS) THEN a ELSE RowsFrom(RowStep(a, sd, i), sd, i + 1)

RECURSIVE CompletenessFrom(_, _, _)
CompletenessFrom(a, sd, k) ==
  IF k > Len(DOC_TYPES) THEN a
  ELSE CompletenessFrom(CompletenessStep(a, sd, DOC_TYPES[k]), sd, k + 1)

\* the whole call on one session map
compare_docs(sd) ==
  FinishCompare(
    LowQualityStep(
      CompletenessFrom(MissingDocsStep(RowsFrom(InitCompare(sd), sd, 1), sd), sd, 1),
      sd))

(***************************************************************************)
(* Bounded documents for the reconciliation: the records of                *)
(* tests/test_compare_docs.py (make_doc and its `common` values), cut down *)
(* to the shapes below.                                                    *)
(***************************************************************************)
NumberField(doc_type) ==
  CASE doc_type = "invoice" -> "invoice_number"
    [] doc_type = "packing_list" -> "packing_list_number"
    [] doc_type = "bl" -> "bl_number"

CommonKeys ==
  { "issue_date", "consignee", "consignee_cnpj", "shipper", "total_value", "po_number",
    "goods_description", "freight_value", "freight_term", "incoterm", "origin_country",
    "provenance_country", "acquisition_country", "pol", "pod", "net_weight",
    "gross_weight", "volume_cbm", "package_count", "ncm" }

BaseValue(k) ==
  CASE k \in {"invoice_number", "packing_list_number", "bl_number"} -> "INV-001"
    [] k = "document_number" -> "DOC-9"
    [] k \in {"issue_date", "shipment_date", "issue_or_shipment_date", "etd", "eta"} -> "2024-01-01"
    [] k = "consignee" -> "ACME"
    [] k = "consignee_cnpj" -> "12.345.678/0001-90"
    [] k = "shipper" -> "EXPORT LTDA"
    [] k = "total_value" -> "1000"
    [] k = "po_number" -> "PO-1"
    [] k = "goods_description" -> "PARTS"
    [] k = "freight_value" -> "100"
    [] k = "freight_term" -> "PREPAID"
    [] k = "incoterm" -> "FOB"
    [] k \in {"origin_country", "provenance_country", "acquisition_country"} -> "BR"
    [] k = "pol" -> "SANTOS"
    [] k = "pod" -> "HAMBURG"
    [] k = "net_weight" -> "90"
    [] k = "gross_weight" -> "100"
    [] k = "volume_cbm" -> "1.2"
    [] k = "package_count" -> "10"
    [] k = "ncm" -> "01010101"
    [] OTHER -> "X"

VariantValue(k, variant) ==
  CASE variant = "lower" -> Lower(BaseValue(k))
    [] variant = "cif" /\ k = "incoterm" -> "CIF"
    [] variant = "blank" -> ""
    [] OTHER -> BaseValue(k)

DroppedByMost ==
  { "goods_description", "freight_value", "freight_term", "provenance_country",
    "acquisition_country", "pod", "volume_cbm", "ncm" }

ProfileKeys(doc_type, profile) ==
  CASE profile = "full" -> CommonKeys \cup {NumberField(doc_type)}
    [] profile = "most" -> (CommonKeys \ DroppedByMost) \cup {NumberField(doc_type)}
    [] profile = "twelve" -> (CommonKeys \ (DroppedByMost \cup {"incoterm"})) \cup {NumberField(doc_type)}
    [] profile = "few" -> {NumberField(doc_type), "issue_date"}
    [] profile = "generic" -> (CommonKeys \ {"issue_date"}) \cup {"document_number", "eta"}
    [] profile = "blank" -> FieldSet
    [] OTHER -> {}

MakeDoc(doc_type, shape) ==
  [ doc_type |-> doc_type,
    filename |-> doc_type,
    extracted_at |-> 0,
    fields |-> [k \in ProfileKeys(doc_type, shape.profile) |->
                  [ value |-> VariantValue(k, shape.variant),
                    source_layer |-> "A",
                    confidence |-> 100,
                    pending_review |-> FALSE ]],
    low_ocr_confidence |-> shape.low ]

Shape(profile, variant, low) == [profile |-> profile, variant |-> variant, low |-> low]

DocShapes ==
  { Shape("full", "base", FALSE), Shape("full", "lower", FALSE), Shape("full", "cif", FALSE),
    Shape("full", "base", TRUE),
    Shape("most", "base", FALSE), Shape("most", "cif", FALSE),
    Shape("twelve", "base", FALSE), Shape("few", "base", FALSE),
    Shape("generic", "base", FALSE), Shape("blank", "blank", FALSE),
    Shape("none", "base", FALSE) }

Absent == Shape("absent", "", FALSE)

SessionOf(pick) ==
  [d \in {e \in DocTypeSet : pick[e] # Absent} |-> MakeDoc(d, pick[d])]

\* REQUIRED_FIELDS_BY_DOC is not defined in app.py: the lists the model runs with
RequiredOptions ==
  { [d \in DocTypeSet |->
       <<"document_number", "issue_or_shipment_date", "consignee", "shipper", "goods_description">>],
    [d \in {"invoice", "bl"} |->
       IF d = "invoice" THEN <<"invoice_number", "total_value", "incoterm", "currency">>
       ELSE <<"pol", "pod", "etd">>],
    [d \in {} |-> <<>>] }

NoLocals ==
  [matrix |-> <<>>, divergences |-> <<>>, doc_completeness |-> <<>>,
   low_completeness_detected |-> FALSE]

NoResult == [status |-> "", matrix |-> <<>>, divergences |-> <<>>, completeness |-> <<>>]

(***************************************************************************)
(* SpecReconcile: compare_docs applied to every bounded session.           *)
(***************************************************************************)
ResolveIdle ==
  /\ arg_raw_text = <<>>
  /\ arg_doc_type = "invoice"
  /\ arg_threshold = 75
  /\ arg_provider = [kind |-> "no_key", parsed |-> <<>>]
  /\ pf_pc = "idle"
  /\ pf_layers = <<>>
  /\ pf_result = <<>>
  /\ pf_sent = <<>>
  /\ pf_prev = <<>>

ServerIdle ==
  /\ SESSIONS = <<>>
  /\ now = 0
  /\ responses = <<>>
  /\ an_sid = ""
  /\ an_i = 0
  /\ seen = {}

InitReconcile ==
  /\ REQUIRED_FIELDS_BY_DOC \in RequiredOptions
  /\ \E pick \in [DocTypeSet -> DocShapes \cup {Absent}] : session_docs = SessionOf(pick)
  /\ cmp_pc = "idle"
  /\ acc = NoLocals
  /\ result = NoResult
  /\ ResolveIdle
  /\ ServerIdle

CompareDocs ==
  /\ cmp_pc = "idle"
  /\ result' = compare_docs(session_docs)
  /\ cmp_pc' = "done"
  /\ UNCHANGED <<REQUIRED_FIELDS_BY_DOC, session_docs, acc, resolveVars, serverVars>>

NextReconcile == CompareDocs

SpecReconcile == InitReconcile /\ [][NextReconcile]_vars

(***************************************************************************)
(* What a session holds, stated without the steps of compare_docs.         *)
(***************************************************************************)
Findings(res, kind) == {f \in Range(res.divergences) : f.kind = kind}

\* the comparative fields for which the role reports a value
FilledComparative(sd, d) ==
  {i \in DOMAIN COMPARATIVE_FIELDS : SessionValue(sd, d, COMPARATIVE_FIELDS[i].key) # ""}

\* the positions of the role's required-field list that have no value
UnmetRequired(sd, d) ==
  {i \in DOMAIN RequiredFields(d) : SessionValue(sd, d, RequiredFields(d)[i]) = ""}

ReportingRoles(sd, key) == {d \in DocTypeSet : SessionValue(sd, d, key) # ""}

Approved(sd) ==
  /\ cmp_pc = "done"
  /\ result.status = "Aprovado"
  /\ session_docs = sd

FullSession(variant) ==
  [d \in DocTypeSet |-> MakeDoc(d, Shape("full", variant, FALSE))]

(* C1: the status returned by compare_docs is "Aprovado" if and only if    *)
(* the returned divergences list is empty and no present role has          *)
(* below_minimum or below_required_minimum set; otherwise it is            *)
(* "Com divergências".                                                     *)
C1_StatusIffNoFindings ==
  cmp_pc = "done" =>
    /\ result.status \in {"Aprovado", "Com divergências"}
    /\ result.status = "Aprovado" <=>
         /\ result.divergences = <<>>
         /\ \A d \in DOMAIN session_docs :
              /\ ~result.completeness[d].below_minimum
              /\ ~result.completeness[d].below_required_minimum

\* both outcomes of C1 happen: an approved session exists, and so does a
\* session refused for a divergence alone
C1_Witness ==
  /\ cmp_pc = "done"
  /\ result.status = "Aprovado"
  /\ DOMAIN session_docs = DocTypeSet
  /\ REQUIRED_FIELDS_BY_DOC # <<>>

(* C2: for every comparative field, compare_docs emits a divergence        *)
(* finding naming the field if and only if at least two roles report a     *)
(* non-empty value for it and these values are not all equal when compared *)
(* case-insensitively; empty values and absent roles cause none.           *)
C2_DivergenceIffConflict ==
  cmp_pc = "done" =>
    \A i \in DOMAIN COMPARATIVE_FIELDS :
      LET key == COMPARATIVE_FIELDS[i].key
          roles == ReportingRoles(session_docs, key)
      IN (DivergenceFinding(COMPARATIVE_FIELDS[i].label) \in Range(result.divergences))
         <=> /\ Cardinality(roles) >= 2
             /\ \E d1, d2 \in roles :
                  Lower(SessionValue(session_docs, d1, key))
                    # Lower(SessionValue(session_docs, d2, key))

\* FOB, fob and CIF side by side: INCOTERM is the one field that diverges,
\* the fields that differ in case only do not
C2_Witness ==
  /\ cmp_pc = "done"
  /\ DOMAIN session_docs = DocTypeSet
  /\ session_docs["invoice"] = MakeDoc("invoice", Shape("full", "base", FALSE))
  /\ session_docs["packing_list"] = MakeDoc("packing_list", Shape("full", "lower", FALSE))
  /\ session_docs["bl"] = MakeDoc("bl", Shape("full", "cif", FALSE))
  /\ Findings(result, "Divergência no campo") = {DivergenceFinding("INCOTERM")}

(* C6: whenever a present role has a required completeness ratio below the *)
(* required minimum, compare_docs sets below_required_minimum for it,      *)
(* returns "Com divergências" and includes a required-completeness         *)
(* pendency for the role citing the exact filled/total required counts.    *)
C6_RequiredPendency ==
  cmp_pc = "done" =>
    \A d \in DOMAIN session_docs :
      LET total == Len(RequiredFields(d))
          filled == total - Cardinality(UnmetRequired(session_docs, d))
      IN (total > 0 /\ filled * 100 < MIN_REQUIRED_COMPLETENESS_RATIO * total) =>
           /\ result.completeness[d].below_required_minimum
           /\ result.status = "Com divergências"
           /\ \E f \in Findings(result, "Pendência de completude obrigatória") : f.doc = d
           /\ \A f \in Findings(result, "Pendência de completude obrigatória") :
                f.doc = d => f.filled = filled /\ f.total = total

\* tests/test_compare_docs.py: only an invoice, with its number and issue
\* date and nothing else
C6_Witness ==
  /\ cmp_pc = "done"
  /\ DOMAIN session_docs = {"invoice"}
  /\ session_docs["invoice"] = MakeDoc("invoice", Shape("few", "base", FALSE))
  /\ Len(RequiredFields("invoice")) = 5
  /\ \E f \in Findings(result, "Pendência de completude obrigatória") :
       f.doc = "invoice" /\ f.filled = 2 /\ f.total = 5

(* C7: for each present role, comparative_completeness_ratio is filled     *)
(* comparative fields / total comparative fields and below_minimum is true *)
(* exactly when it is below 0.6; required_completeness_ratio is (required  *)
(* - missing required) / required over the role's required-field list and  *)
(* below_required_minimum is true exactly when it is below 0.8.            *)
C7_CompletenessRatios ==
  cmp_pc = "done" =>
    \A d \in DOMAIN session_docs :
      LET m == result.completeness[d]
          filled == Cardinality(FilledComparative(session_docs, d))
          total == Len(COMPARATIVE_FIELDS)
          rtotal == Len(RequiredFields(d))
          rfilled == rtotal - Cardinality(UnmetRequired(session_docs, d))
      IN /\ m.comparative_completeness_ratio = Ratio(filled, total)
         /\ m.below_minimum <=> (filled * 10 < 6 * total)
         /\ rtotal > 0 => m.required_completeness_ratio = Ratio(rfilled, rtotal)
         /\ rtotal > 0 => (m.below_required_minimum <=> (rfilled * 10 < 8 * rtotal))
         /\ rtotal = 0 => ~m.below_required_minimum

\* a role exactly at the required minimum (4 of 5) and above the
\* comparative one (13 of 21), beside a role below both
C7_Witness ==
  /\ cmp_pc = "done"
  /\ DOMAIN session_docs = {"invoice", "bl"}
  /\ result.completeness["invoice"].required_completeness_ratio = Ratio(4, 5)
  /\ result.completeness["invoice"].comparative_completeness_ratio = Ratio(13, 21)
  /\ ~result.completeness["invoice"].below_required_minimum
  /\ ~result.completeness["invoice"].below_minimum
  /\ result.completeness["bl"].below_minimum
  /\ result.completeness["bl"].below_required_minimum

(* C8: compare_docs returns a ComparisonResult for every session, the      *)
(* empty one and those with one or two roles included; whenever a role has *)
(* no record the result holds a missing-documents pendency naming exactly  *)
(* the absent roles (and none when all three are present).                 *)
C8_AlwaysAResult ==
  cmp_pc = "done" =>
    LET absent == DocTypeSet \ DOMAIN session_docs
        pend == Findings(result, "Pendência: documentos ausentes para análise cruzada")
    IN /\ result.status \in {"Aprovado", "Com divergências"}
       /\ Len(result.matrix) = Len(COMPARATIVE_FIELDS)
       /\ DOMAIN result.completeness = DocTypeSet
       /\ \A d \in DocTypeSet :
            result.completeness[d].document_present <=> d \in DOMAIN session_docs
       /\ (absent = {}) <=> (pend = {})
       /\ \A f \in pend : Range(f.names) = absent /\ Len(f.names) = Cardinality(absent)

\* one role uploaded: the pendency names the two others
C8_Witness ==
  /\ cmp_pc = "done"
  /\ DOMAIN session_docs = {"packing_list"}
  /\ MissingDocsFinding(<<"invoice", "bl">>) \in Range(result.divergences)

(***************************************************************************)
(* field_extractor.py: profiles, aliases and value patterns.               *)
(***************************************************************************)
\* hundredths; the default of parse_fields' confidence_threshold
CONFIDENCE_THRESHOLD == 75

ALIASES ==
  [f \in FieldSet |->
    CASE f = "document_number" -> << "document number", "número do documento", "doc no" >>
      [] f = "invoice_number" -> << "invoice no", "invoice number", "inv#", "commercial invoice number" >>
      [] f = "packing_list_number" -> << "packing list no", "packing list number", "p/l number" >>
      [] f = "bl_number" -> << "bill of lading no", "bl no", "b/l number" >>
      [] f = "issue_date" -> << "issue date", "data de emissão", "invoice date" >>
      [] f = "shipment_date" -> << "shipment date", "embarque", "shipping date" >>
      [] f = "issue_or_shipment_date" -> << "data de emissão / embarque", "issue/shipment date" >>
      [] f = "po_number" -> << "po no", "purchase order", "ordem de compra", "order no" >>
      [] f = "shipper" -> << "shipper", "exporter", "exportador", "seller" >>
      [] f = "consignee" -> << "consignee", "importador", "buyer", "importer" >>
      [] f = "consignee_cnpj" -> << "cnpj do importador", "cnpj consignee", "consignee tax id" >>
      [] f = "goods_description" -> << "description of goods", "descrição da mercadoria", "commodity" >>
      [] f = "freight_value" -> << "freight value", "valor do frete", "freight amount" >>
      [] f = "freight_term" -> << "freight term", "condição do frete", "freight condition" >>
      [] f = "origin_country" -> << "country of origin", "país de origem", "made in" >>
      [] f = "provenance_country" -> << "país de procedência", "country of provenance" >>
      [] f = "acquisition_country" -> << "país de aquisição", "country of acquisition" >>
      [] f = "destination_country" -> << "destination", "destination country", "country of destination" >>
      [] f = "pol" -> << "port of loading", "pol", "porto de carregamento" >>
      [] f = "pod" -> << "port of discharge", "pod", "porto de descarga" >>
      [] f = "incoterm" -> << "incoterm", "terms of delivery", "trade term" >>
      [] f = "currency" -> << "currency", "curr", "invoice currency" >>
      [] f = "net_weight" -> << "net weight", "peso líquido", "n.w.", "nw" >>
      [] f = "gross_weight" -> << "gross weight", "peso bruto", "g.w.", "gw" >>
      [] f = "volume_cbm" -> << "cbm", "cubagem", "volume" >>
      [] f = "package_count" -> << "total packages", "packages", "quantidade de volumes", "cartons" >>
      [] f = "ncm" -> << "ncm", "ncms", "hs code", "hscode" >>
      [] f = "total_value" -> << "total amount", "total value", "amount due", "invoice total" >>
      [] f = "etd" -> << "etd", "estimated time of departure", "departure date" >>
      [] f = "eta" -> << "eta", "estimated time of arrival", "arrival date" >> ]

DOC_TYPE_PROFILES ==
  [ invoice |->
      [ field_priority |->
          << "invoice_number", "document_number", "issue_date", "po_number",
             "shipper", "consignee", "consignee_cnpj", "goods_description",
             "total_value", "currency", "freight_value", "freight_term",
             "incoterm", "origin_country", "provenance_country", "acquisition_country",
             "destination_country", "net_weight", "gross_weight", "volume_cbm",
             "package_count", "ncm" >>,
        aliases |->
          [ invoice_number |-> <<"invoice n°", "invoice nr", "invoice num">>,
            issue_date |-> <<"date of issue", "invoice issued on">> ] ],
    packing_list |->
      [ field_priority |->
          << "packing_list_number", "document_number", "shipment_date", "issue_or_shipment_date",
             "po_number", "shipper", "consignee", "consignee_cnpj",
             "goods_description", "origin_country", "destination_country", "net_weight",
             "gross_weight", "volume_cbm", "package_count", "ncm" >>,
        aliases |->
          [ packing_list_number |-> <<"p/l no", "packing list n°", "packing no">>,
            package_count |-> <<"qty packages", "number of packages">> ] ],
    bl |->
      [ field_priority |->
          << "bl_number", "document_number", "shipment_date", "issue_or_shipment_date",
             "shipper", "consignee", "consignee_cnpj", "goods_description",
             "freight_term", "origin_country", "destination_country", "pol",
             "pod", "etd", "eta", "net_weight",
             "gross_weight", "volume_cbm", "package_count" >>,
        aliases |->
          [ bl_number |-> <<"b/l no", "bol no", "bill of lading number">>,
            pol |-> <<"load port", "port load">>,
            pod |-> <<"discharge port", "port discharge">> ] ] ]

DOC_NUMBER_FALLBACK_BY_TYPE ==
  [invoice |-> "invoice_number", packing_list |-> "packing_list_number", bl |-> "bl_number"]

FIELD_VALUE_PATTERNS ==
  [f \in FieldSet |->
    CASE f = "document_number" -> "([A-Z0-9\\-/]{3,})"
      [] f = "invoice_number" -> "([A-Z0-9\\-/]{4,})"
      [] f = "packing_list_number" -> "([A-Z0-9\\-/]{4,})"
      [] f = "bl_number" -> "([A-Z0-9\\-/]{4,})"
      [] f = "issue_date" -> "([0-9]{1,4}[./\\-][0-9]{1,2}[./\\-][0-9]{1,4})"
      [] f = "shipment_date" -> "([0-9]{1,4}[./\\-][0-9]{1,2}[./\\-][0-9]{1,4})"
      [] f = "issue_or_shipment_date" -> "([0-9]{1,4}[./\\-][0-9]{1,2}[./\\-][0-9]{1,4})"
      [] f = "po_number" -> "([A-Z0-9\\-/]{3,})"
      [] f = "shipper" -> "([A-Za-z0-9&.,\\-\\s]{3,})"
      [] f = "consignee" -> "([A-Za-z0-9&.,\\-\\s]{3,})"
      [] f = "consignee_cnpj" -> "([0-9./\\-]{14,20})"
      [] f = "goods_description" -> "([A-Za-z0-9,./\\-\\s]{5,})"
      [] f = "freight_value" -> "([0-9][0-9.,]*)"
      [] f = "freight_term" -> "([A-Za-z\\s]{3,})"
      [] f = "origin_country" -> "([A-Za-z\\s]{3,})"
      [] f = "provenance_country" -> "([A-Za-z\\s]{3,})"
      [] f = "acquisition_country" -> "([A-Za-z\\s]{3,})"
      [] f = "destination_country" -> "([A-Za-z\\s]{3,})"
      [] f = "pol" -> "([A-Za-z\\s]{3,})"
      [] f = "pod" -> "([A-Za-z\\s]{3,})"
      [] f = "incoterm" -> "\\b([A-Z]{3})\\b"
      [] f = "currency" -> "\\b([A-Z]{3})\\b"
      [] f = "net_weight" -> "([0-9][0-9.,]*\\s*[A-Za-z]{0,3})"
      [] f = "gross_weight" -> "([0-9][0-9.,]*\\s*[A-Za-z]{0,3})"
      [] f = "volume_cbm" -> "([0-9][0-9.,]*\\s*(?:CBM|M3)?)"
      [] f = "package_count" -> "([0-9][0-9.,]*)"
      [] f = "ncm" -> "([0-9]{4,8}(?:\\.[0-9]{2})?)"
      [] f = "total_value" -> "([0-9][0-9.,]*)"
      [] f = "etd" -> "([0-9]{1,4}[./\\-][0-9]{1,2}[./\\-][0-9]{1,4})"
      [] f = "eta" -> "([0-9]{1,4}[./\\-][0-9]{1,2}[./\\-][0-9]{1,4})" ]

\* doc_type.lower(), on the document types of the model
LowerDocType(dt) ==
  CASE dt = "INVOICE" -> "invoice"
    [] OTHER -> dt

(***************************************************************************)
(* The text.  raw_text is the sequence of lines raw_text.splitlines()      *)
(* yields, each a member of RawLines.  The regular-expression engine is    *)
(* the library's: the RE_ tables below hold what re / str return on these  *)
(* lines (all flags as in the source), one entry per match, no entry where *)
(* there is none.                                                          *)
(***************************************************************************)
RawLines ==
  { "Invoice No: INV-2024-0001",
    "INVOICE NUMBER",
    "INV-2024-0001",
    "  Port of Loading:  SANTOS ",
    "ETD: 2024-01-05",
    "A",
    "" }

\* re.sub(r"\s+", " ", value).strip(" :-\t") on the strings of the model
normalize_spaces(value) ==
  CASE value = "  Port of Loading:  SANTOS " -> "Port of Loading: SANTOS"
    [] value = " - " -> ""
    [] value = " 2024-01-05" -> "2024-01-05"
    [] value = "SANTOS " -> "SANTOS"
    [] OTHER -> value

\* _match_after_alias's candidate_pattern.search(line): group(1)
RE_MATCH_AFTER_ALIAS ==
  (<<"Invoice No: INV-2024-0001", "invoice no", "invoice_number">> :> "INV-2024-0001")
  @@ (<<"Port of Loading: SANTOS", "port of loading", "pol">> :> "SANTOS")
  @@ (<<"ETD: 2024-01-05", "etd", "etd">> :> "2024-01-05")

\* alias.lower() in line.lower()
ALIAS_IN_LINE ==
  { <<"etd", "ETD: 2024-01-05">>,
    <<"invoice no", "Invoice No: INV-2024-0001">>,
    <<"invoice num", "INVOICE NUMBER">>,
    <<"invoice number", "INVOICE NUMBER">>,
    <<"port of loading", "Port of Loading: SANTOS">> }

\* re.compile(pattern, re.IGNORECASE).search(line): group(1)
RE_SEARCH ==
  (<<"([A-Z0-9\\-/]{3,})", "Invoice No: INV-2024-0001">> :> "Invoice")
  @@ (<<"([A-Z0-9\\-/]{3,})", "INVOICE NUMBER">> :> "INVOICE")
  @@ (<<"([A-Z0-9\\-/]{3,})", "INV-2024-0001">> :> "INV-2024-0001")
  @@ (<<"([A-Z0-9\\-/]{3,})", "Port of Loading: SANTOS">> :> "Port")
  @@ (<<"([A-Z0-9\\-/]{3,})", "ETD: 2024-01-05">> :> "ETD")
  @@ (<<"([A-Z0-9\\-/]{4,})", "Invoice No: INV-2024-0001">> :> "Invoice")
  @@ (<<"([A-Z0-9\\-/]{4,})", "INVOICE NUMBER">> :> "INVOICE")
  @@ (<<"([A-Z0-9\\-/]{4,})", "INV-2024-0001">> :> "INV-2024-0001")
  @@ (<<"([A-Z0-9\\-/]{4,})", "Port of Loading: SANTOS">> :> "Port")
  @@ (<<"([A-Z0-9\\-/]{4,})", "ETD: 2024-01-05">> :> "2024-01-05")
  @@ (<<"([0-9]{1,4}[./\\-][0-9]{1,2}[./\\-][0-9]{1,4})", "ETD: 2024-01-05">> :> "2024-01-05")
  @@ (<<"([A-Za-z0-9&.,\\-\\s]{3,})", "Invoice No: INV-2024-0001">> :> "Invoice No")
  @@ (<<"([A-Za-z0-9&.,\\-\\s]{3,})", "INVOICE NUMBER">> :> "INVOICE NUMBER")
  @@ (<<"([A-Za-z0-9&.,\\-\\s]{3,})", "INV-2024-0001">> :> "INV-2024-0001")
  @@ (<<"([A-Za-z0-9&.,\\-\\s]{3,})", "Port of Loading: SANTOS">> :> "Port of Loading")
  @@ (<<"([A-Za-z0-9&.,\\-\\s]{3,})", "ETD: 2024-01-05">> :> "ETD")
  @@ (<<"([A-Za-z0-9,./\\-\\s]{5,})", "Invoice No: INV-2024-0001">> :> "Invoice No")
  @@ (<<"([A-Za-z0-9,./\\-\\s]{5,})", "INVOICE NUMBER">> :> "INVOICE NUMBER")
  @@ (<<"([A-Za-z0-9,./\\-\\s]{5,})", "INV-2024-0001">> :> "INV-2024-0001")
  @@ (<<"([A-Za-z0-9,./\\-\\s]{5,})", "Port of Loading: SANTOS">> :> "Port of Loading")
  @@ (<<"([A-Za-z0-9,./\\-\\s]{5,})", "ETD: 2024-01-05">> :> " 2024-01-05")
  @@ (<<"([0-9][0-9.,]*)", "Invoice No: INV-2024-0001">> :> "2024")
  @@ (<<"([0-9][0-9.,]*)", "INV-2024-0001">> :> "2024")
  @@ (<<"([0-9][0-9.,]*)", "ETD: 2024-01-05">> :> "2024")
  @@ (<<"([A-Za-z\\s]{3,})", "Invoice No: INV-2024-0001">> :> "Invoice No")
  @@ (<<"([A-Za-z\\s]{3,})", "INVOICE NUMBER">> :> "INVOICE NUMBER")
  @@ (<<"([A-Za-z\\s]{3,})", "INV-2024-0001">> :> "INV")
  @@ (<<"([A-Za-z\\s]{3,})", "Port of Loading: SANTOS">> :> "Port of Loading")
  @@ (<<"([A-Za-z\\s]{3,})", "ETD: 2024-01-05">> :> "ETD")
  @@ (<<"\\b([A-Z]{3})\\b", "Invoice No: INV-2024-0001">> :> "INV")
  @@ (<<"\\b([A-Z]{3})\\b", "INV-2024-0001">> :> "INV")
  @@ (<<"\\b([A-Z]{3})\\b", "ETD: 2024-01-05">> :> "ETD")
  @@ (<<"([0-9][0-9.,]*\\s*[A-Za-z]{0,3})", "Invoice No: INV-2024-0001">> :> "2024")
  @@ (<<"([0-9][0-9.,]*\\s*[A-Za-z]{0,3})", "INV-2024-0001">> :> "2024")
  @@ (<<"([0-9][0-9.,]*\\s*[A-Za-z]{0,3})", "ETD: 2024-01-05">> :> "2024")
  @@ (<<"([0-9][0-9.,]*\\s*(?:CBM|M3)?)", "Invoice No: INV-2024-0001">> :> "2024")
  @@ (<<"([0-9][0-9.,]*\\s*(?:CBM|M3)?)", "INV-2024-0001">> :> "2024")
  @@ (<<"([0-9][0-9.,]*\\s*(?:CBM|M3)?)", "ETD: 2024-01-05">> :> "2024")
  @@ (<<"([0-9]{4,8}(?:\\.[0-9]{2})?)", "Invoice No: INV-2024-0001">> :> "2024")
  @@ (<<"([0-9]{4,8}(?:\\.[0-9]{2})?)", "INV-2024-0001">> :> "2024")
  @@ (<<"([0-9]{4,8}(?:\\.[0-9]{2})?)", "ETD: 2024-01-05">> :> "2024")

\* the rule table of _ner_style_fallback
NER_PATTERNS ==
  << [field |-> "invoice_number", pattern |-> "invoice\\s*(?:no|number|#)?\\s*[:\\-]?\\s*([A-Z0-9\\-/]{4,})"],
     [field |-> "packing_list_number", pattern |-> "packing\\s*list\\s*(?:no|number|#)?\\s*[:\\-]?\\s*([A-Z0-9\\-/]{4,})"],
     [field |-> "bl_number", pattern |-> "(?:bill\\s*of\\s*lading|b/?l)\\s*(?:no|number|#)?\\s*[:\\-]?\\s*([A-Z0-9\\-/]{4,})"],
     [field |-> "po_number", pattern |-> "(?:po|purchase\\s*order|ordem\\s*de\\s*compra)\\s*(?:no|number|#)?\\s*[:\\-]?\\s*([A-Z0-9\\-/]{3,})"],
     [field |-> "consignee_cnpj", pattern |-> "cnpj\\s*(?:do\\s*importador|consignee)?\\s*[:\\-]?\\s*([0-9./\\-]{14,20})"],
     [field |-> "goods_description", pattern |-> "(?:description\\s*of\\s*goods|descrição\\s*da\\s*mercadoria)\\s*[:\\-]?\\s*([^\\n]{5,120})"],
     [field |-> "freight_value", pattern |-> "(?:freight\\s*value|valor\\s*do\\s*frete)\\s*[:\\-]?\\s*([0-9.,]+)"],
     [field |-> "freight_term", pattern |-> "(?:freight\\s*term|condição\\s*do\\s*frete)\\s*[:\\-]?\\s*([^\\n]{3,40})"],
     [field |-> "pol", pattern |-> "(?:port\\s*of\\s*loading|pol|porto\\s*de\\s*carregamento)\\s*[:\\-]?\\s*([^\\n]{3,40})"],
     [field |-> "pod", pattern |-> "(?:port\\s*of\\s*discharge|pod|porto\\s*de\\s*descarga)\\s*[:\\-]?\\s*([^\\n]{3,40})"],
     [field |-> "volume_cbm", pattern |-> "(?:cbm|cubagem)\\s*[:\\-]?\\s*([0-9.,]+(?:\\s*(?:CBM|M3))?)"],
     [field |-> "ncm", pattern |-> "(?:ncm|ncms|hs\\s*code)\\s*[:\\-]?\\s*([0-9]{4,8}(?:\\.[0-9]{2})?)"] >>

\* re.search(pattern, raw_text, re.IGNORECASE) for the rule of a field: the
\* leftmost match starts in some non-blank line and ends in it or in the
\* next non-blank one.  _LINE: the match that starts in the line whatever
\* follows it; _NEXT: the match that starts in the line given the next
\* non-blank line ("" at the end of the text).
RE_SEARCH_TEXT_LINE ==
  (<<"invoice_number", "Invoice No: INV-2024-0001">> :> "INV-2024-0001")
  @@ (<<"pol", "  Port of Loading:  SANTOS ">> :> "SANTOS ")

RE_SEARCH_TEXT_NEXT ==
  (<<"invoice_number", "INVOICE NUMBER", "Invoice No: INV-2024-0001">> :> "Invoice")
  @@ (<<"invoice_number", "INVOICE NUMBER", "INVOICE NUMBER">> :> "INVOICE")
  @@ (<<"invoice_number", "INVOICE NUMBER", "INV-2024-0001">> :> "INV-2024-0001")
  @@ (<<"invoice_number", "INVOICE NUMBER", "  Port of Loading:  SANTOS ">> :> "Port")
  @@ (<<"invoice_number", "INVOICE NUMBER", "ETD: 2024-01-05">> :> "NUMBER")
  @@ (<<"invoice_number", "INVOICE NUMBER", "A">> :> "NUMBER")
  @@ (<<"invoice_number", "INVOICE NUMBER", "">> :> "NUMBER")

(***************************************************************************)
(* field_extractor.py: candidates and the three layers.  A FieldCandidate  *)
(* is a record; None is NoCandidate.  Confidences are hundredths.          *)
(***************************************************************************)
NoCandidate == [some |-> FALSE, value |-> "", confidence |-> 0]

FieldCandidate(value, confidence) ==
  [some |-> TRUE, value |-> value, confidence |-> confidence]

Max(a, b) == IF a >= b THEN a ELSE b

Min(a, b) == IF a <= b THEN a ELSE b

\* dict.get(key, "") on a mapping of strings
Get(mapping, key) == IF key \in DOMAIN mapping THEN mapping[key] ELSE ""

\* _match_after_alias
_match_after_alias(line, alias, field) ==
  IF <<line, alias, field>> \in DOMAIN RE_MATCH_AFTER_ALIAS
  THEN FieldCandidate(normalize_spaces(RE_MATCH_AFTER_ALIAS[<<line, alias, field>>]), 92)
  ELSE NoCandidate

\* _resolve_profile: DOC_TYPE_PROFILES.get(doc_type.lower(), {})
Profile(doc_type) ==
  IF LowerDocType(doc_type) \in DOMAIN DOC_TYPE_PROFILES
  THEN DOC_TYPE_PROFILES[LowerDocType(doc_type)]
  ELSE [field_priority |-> CANONICAL_FIELDS, aliases |-> <<>>]

\* _resolve_profile: the fields in profile order, document_number inserted
FieldsPriority(doc_type) ==
  LET fp == Filter(Profile(doc_type).field_priority, FieldSet)
  IN  IF "document_number" \in Range(fp) THEN fp
      ELSE IF Len(fp) > 1
           THEN <<fp[1], "document_number">> \o Tail(fp)
           ELSE <<"document_number">> \o fp

\* _resolve_profile: the global aliases followed by the profile's own
AliasesMap(doc_type) ==
  [f \in FieldSet |->
     ALIASES[f] \o (IF f \in DOMAIN Profile(doc_type).aliases
                    THEN Profile(doc_type).aliases[f] ELSE <<>>)]

\* [normalize_spaces(line) for line in raw_text.splitlines() if normalize_spaces(line)]
RECURSIVE NormalizedLines(_)
NormalizedLines(raw_text) ==
  IF raw_text = <<>> THEN <<>>
  ELSE (IF normalize_spaces(Head(raw_text)) # ""
        THEN <<normalize_spaces(Head(raw_text))>> ELSE <<>>)
       \o NormalizedLines(Tail(raw_text))

\* layer_a_alias_regex, inner loop: the first alias that yields a value
RECURSIVE AliasCandidate(_, _, _)
AliasCandidate(line, aliases, field) ==
  IF aliases = <<>> THEN NoCandidate
  ELSE LET candidate == _match_after_alias(line, Head(aliases), field)
       IN  IF candidate.some /\ candidate.value # "" THEN candidate
           ELSE AliasCandidate(line, Tail(aliases), field)

\* layer_a_alias_regex, middle loop: the first line that yields a value
RECURSIVE LineCandidate(_, _, _)
LineCandidate(lines, aliases, field) ==
  IF lines = <<>> THEN NoCandidate
  ELSE LET candidate == AliasCandidate(Head(lines), aliases, field)
       IN  IF candidate.some THEN candidate
           ELSE LineCandidate(Tail(lines), aliases, field)

layer_a_alias_regex(lines, fields_priority, aliases_map) ==
  LET found == {f \in Range(fields_priority) :
                  LineCandidate(lines, aliases_map[f], f).some}
  IN  [f \in found |-> LineCandidate(lines, aliases_map[f], f)]

\* _extract_from_window
RECURSIVE _extract_from_window(_, _)
_extract_from_window(window_lines, field) ==
  IF window_lines = <<>> THEN NoCandidate
  ELSE LET key == <<FIELD_VALUE_PATTERNS[field], Head(window_lines)>>
       IN  IF key \in DOMAIN RE_SEARCH /\ normalize_spaces(RE_SEARCH[key]) # ""
           THEN FieldCandidate(normalize_spaces(RE_SEARCH[key]), 80)
           ELSE _extract_from_window(Tail(window_lines), field)

\* any(alias.lower() in line.lower() for alias in aliases)
HasAlias(line, aliases) ==
  \E i \in DOMAIN aliases : <<aliases[i], line>> \in ALIAS_IN_LINE

\* layer_b_context, loop over the lines from idx on (1-based)
RECURSIVE ContextCandidate(_, _, _, _)
ContextCandidate(lines, idx, aliases, field) ==
  IF idx > Len(lines) THEN NoCandidate
  ELSE IF HasAlias(lines[idx], aliases)
       THEN LET candidate ==
                  _extract_from_window(
                    SubSeq(lines, Max(1, idx - 2), Min(Len(lines), idx + 2)), field)
            IN  IF candidate.some THEN candidate
                ELSE ContextCandidate(lines, idx + 1, aliases, field)
       ELSE ContextCandidate(lines, idx + 1, aliases, field)

\* "if field in resolved: continue" of layers B and C, with no skipping
AlreadyResolved_Never(resolved, field) == FALSE

\* "if field in resolved: continue" of layers B and C
AlreadyResolved(resolved, field) == field \in DOMAIN resolved

layer_b_context(raw_text, already_resolved, fields_priority, aliases_map) ==
  LET lines == NormalizedLines(raw_text)
      written == {f \in Range(fields_priority) :
                    /\ ~AlreadyResolved(already_resolved, f)
                    /\ ContextCandidate(lines, 1, aliases_map[f], f).some}
  IN  [f \in DOMAIN already_resolved \cup written |->
         IF f \in written THEN ContextCandidate(lines, 1, aliases_map[f], f)
         ELSE already_resolved[f]]

(***************************************************************************)
(* Layer C.  The inference provider is outside the program: arg_provider   *)
(* is what the environment and the HTTP call give _call_openai_json.       *)
(*   no_key         OPENAI_API_KEY unset                                   *)
(*   url_error      urlopen raises URLError / TimeoutError                 *)
(*   empty_content  the message content is empty                           *)
(*   bad_json       the content is not JSON                                *)
(*   no_answer      nothing arrives: urlopen raises when the timeout ends  *)
(*   answer         the content is the JSON object `parsed`                *)
(*   not_an_object  the content is JSON but no object: parsed.get raises   *)
(***************************************************************************)
_call_openai_json(fields_priority, provider) ==
  CASE provider.kind \in {"no_key", "url_error", "no_answer", "empty_content", "bad_json"} ->
         [kind |-> "none", map |-> <<>>]
    [] provider.kind = "not_an_object" ->
         [kind |-> "raise", map |-> <<>>]
    [] OTHER ->
         [kind |-> "dict",
          map |-> [k \in Range(fields_priority) |->
                     normalize_spaces(Get(provider.parsed, k))]]

\* the lines of raw_text that hold something besides white space
RECURSIVE NonBlankLines(_)
NonBlankLines(raw_text) ==
  IF raw_text = <<>> THEN <<>>
  ELSE (IF Head(raw_text) # "" THEN <<Head(raw_text)>> ELSE <<>>)
       \o NonBlankLines(Tail(raw_text))

\* re.search(pattern, raw_text, flags=re.IGNORECASE) for the rule of field
RECURSIVE SearchText(_, _)
SearchText(field, text_lines) ==
  IF text_lines = <<>> THEN [some |-> FALSE, group1 |-> ""]
  ELSE LET line == Head(text_lines)
           next == IF Len(text_lines) > 1 THEN text_lines[2] ELSE ""
       IN  IF <<field, line>> \in DOMAIN RE_SEARCH_TEXT_LINE
           THEN [some |-> TRUE, group1 |-> RE_SEARCH_TEXT_LINE[<<field, line>>]]
           ELSE IF <<field, line, next>> \in DOMAIN RE_SEARCH_TEXT_NEXT
                THEN [some |-> TRUE, group1 |-> RE_SEARCH_TEXT_NEXT[<<field, line, next>>]]
                ELSE SearchText(field, Tail(text_lines))

\* _ner_style_fallback: the loop over the rule table
RECURSIVE ApplyPatterns(_, _, _)
ApplyPatterns(resolved, patterns, raw_text) ==
  IF patterns = <<>> THEN resolved
  ELSE LET field == Head(patterns).field
           match == SearchText(field, NonBlankLines(raw_text))
       IN  ApplyPatterns(
             IF field \in DOMAIN resolved /\ match.some
             THEN [resolved EXCEPT ![field] = normalize_spaces(match.group1)]
             ELSE resolved,
             Tail(patterns), raw_text)

\* _ner_style_fallback: document_number takes the role's own number
MirrorDocumentNumber(resolved, doc_type) ==
  LET key == LowerDocType(doc_type)
  IN  IF /\ key \in DOMAIN DOC_NUMBER_FALLBACK_BY_TYPE
         /\ "document_number" \in DOMAIN resolved
         /\ DOC_NUMBER_FALLBACK_BY_TYPE[key] \in DOMAIN resolved
         /\ resolved[DOC_NUMBER_FALLBACK_BY_TYPE[key]] # ""
      THEN [resolved EXCEPT !["document_number"] =
                                resolved[DOC_NUMBER_FALLBACK_BY_TYPE[key]]]
      ELSE resolved

\* _ner_style_fallback: one (mirror_a, mirror_b) step of the date loop
MirrorDate(resolved, mirror_a, mirror_b) ==
  IF Get(resolved, mirror_a) = "" /\ Get(resolved, mirror_b) # ""
  THEN [f \in DOMAIN resolved \cup {mirror_a} |->
          IF f = mirror_a THEN resolved[mirror_b] ELSE resolved[f]]
  ELSE resolved

_ner_style_fallback(raw_text, fields_priority, doc_type) ==
  LET blank == [k \in Range(fields_priority) |-> ""]
      matched == ApplyPatterns(blank, NER_PATTERNS, raw_text)
      numbered == MirrorDocumentNumber(matched, doc_type)
  IN  MirrorDate(MirrorDate(numbered, "issue_or_shipment_date", "etd"),
                 "shipment_date", "etd")

\* layer_c_llm_ner, for a provider call that returns
layer_c_llm_ner(raw_text, already_resolved, fields_priority, doc_type, provider) ==
  LET answer == _call_openai_json(fields_priority, provider)
      llm_result == IF answer.kind = "none" \/ DOMAIN answer.map = {}
                    THEN _ner_style_fallback(raw_text, fields_priority, doc_type)
                    ELSE answer.map
      value == [f \in Range(fields_priority) |-> normalize_spaces(Get(llm_result, f))]
      written == {f \in Range(fields_priority) :
                    ~AlreadyResolved(already_resolved, f) /\ value[f] # ""}
  IN  [f \in DOMAIN already_resolved \cup written |->
         IF f \in written THEN FieldCandidate(value[f], 70)
         ELSE already_resolved[f]]

_apply_document_number_fallback(resolved, doc_type) ==
  LET key == LowerDocType(doc_type)
  IN  IF \/ key \notin DOMAIN DOC_NUMBER_FALLBACK_BY_TYPE
         \/ "document_number" \in DOMAIN resolved
      THEN resolved
      ELSE IF DOC_NUMBER_FALLBACK_BY_TYPE[key] \notin DOMAIN resolved
           THEN resolved
           ELSE [f \in DOMAIN resolved \cup {"document_number"} |->
                   IF f = "document_number"
                   THEN FieldCandidate(resolved[DOC_NUMBER_FALLBACK_BY_TYPE[key]].value,
                                       resolved[DOC_NUMBER_FALLBACK_BY_TYPE[key]].confidence)
                   ELSE resolved[f]]

(***************************************************************************)
(* parse_fields                                                            *)
(***************************************************************************)
\* the locals layer_a, layer_b and layer_c (after the number fallback)
Layers(raw_text, doc_type, provider) ==
  LET fields_priority == FieldsPriority(doc_type)
      aliases_map == AliasesMap(doc_type)
      layer_a == layer_a_alias_regex(NormalizedLines(raw_text), fields_priority, aliases_map)
      layer_b == layer_b_context(raw_text, layer_a, fields_priority, aliases_map)
      layer_c == layer_c_llm_ner(raw_text, layer_b, fields_priority, doc_type, provider)
  IN  [a |-> layer_a, b |-> layer_b,
       c |-> _apply_document_number_fallback(layer_c, doc_type)]

\* "if field not in relevant_fields", with every field taken as relevant
IsRelevant_Always(field, relevant_fields) == TRUE

\* "if field not in relevant_fields" is the negation of this
IsRelevant(field, relevant_fields) == field \in relevant_fields

\* candidate.confidence < confidence_threshold, with <= for <
PendingReview_Inclusive(confidence, confidence_threshold) ==
  confidence <= confidence_threshold

\* candidate.confidence < confidence_threshold
PendingReview(confidence, confidence_threshold) ==
  confidence < confidence_threshold

\* round(max(0.0, min(confidence, 1.0)), 2)
ClampConfidence(confidence) == Max(0, Min(confidence, 100))

\* the loop over CANONICAL_FIELDS that builds `final`
Final(layers, doc_type, confidence_threshold) ==
  LET relevant_fields == Range(FieldsPriority(doc_type))
  IN  [field \in FieldSet |->
        IF ~IsRelevant(field, relevant_fields)
        THEN [value |-> "", source_layer |-> "ignored",
              confidence |-> 0, pending_review |-> FALSE]
        ELSE IF field \notin DOMAIN layers.c
             THEN [value |-> "", source_layer |-> "unresolved",
                   confidence |-> 0, pending_review |-> TRUE]
             ELSE [value |-> layers.c[field].value,
                   source_layer |-> IF field \in DOMAIN layers.a THEN "A"
                                    ELSE IF field \in DOMAIN layers.b THEN "B"
                                    ELSE "C",
                   confidence |-> ClampConfidence(layers.c[field].confidence),
                   pending_review |-> PendingReview(layers.c[field].confidence,
                                                    confidence_threshold)]]

\* parse_fields raises what _call_openai_json raises
ParseRaises(doc_type, provider) ==
  _call_openai_json(FieldsPriority(doc_type), provider).kind = "raise"

parse_fields(raw_text, doc_type, confidence_threshold, provider) ==
  Final(Layers(raw_text, doc_type, provider), doc_type, confidence_threshold)

(***************************************************************************)
(* SpecResolve: parse_fields applied to every bounded text, document type, *)
(* threshold and provider behaviour.                                       *)
(***************************************************************************)
MaxLines == 3

Texts == UNION {[1..n -> RawLines] : n \in 0..MaxLines}

\* the three roles, a type without profile, and a role in upper case
DocTypeArgs == {"invoice", "packing_list", "bl", "other", "INVOICE"}

\* the default threshold and the confidences of layers C and B
Thresholds == {CONFIDENCE_THRESHOLD, 70, 80}

ProviderAnswer ==
  ("invoice_number" :> "LLM-0001") @@ ("document_number" :> "LLM-DOC")
  @@ ("pol" :> "LLM PORT") @@ ("etd" :> " - ") @@ ("currency" :> "USD")

Providers ==
  { [kind |-> "no_key", parsed |-> <<>>],
    [kind |-> "url_error", parsed |-> <<>>],
    [kind |-> "empty_content", parsed |-> <<>>],
    [kind |-> "bad_json", parsed |-> <<>>],
    [kind |-> "not_an_object", parsed |-> <<>>],
    [kind |-> "answer", parsed |-> <<>>],
    [kind |-> "answer", parsed |-> ProviderAnswer] }

ReconcileIdle ==
  /\ REQUIRED_FIELDS_BY_DOC = <<>>
  /\ session_docs = <<>>
  /\ cmp_pc = "idle"
  /\ acc = NoLocals
  /\ result = NoResult

InitResolve ==
  /\ arg_raw_text \in Texts
  /\ arg_doc_type \in DocTypeArgs
  /\ arg_threshold \in Thresholds
  /\ arg_provider \in Providers
  /\ pf_pc = "idle"
  /\ pf_layers = <<>>
  /\ pf_result = <<>>
  /\ pf_sent = <<>>
  /\ pf_prev = <<>>
  /\ ReconcileIdle
  /\ ServerIdle

ParseFields ==
  /\ pf_pc = "idle"
  /\ ~ParseRaises(arg_doc_type, arg_provider)
  /\ pf_layers' = Layers(arg_raw_text, arg_doc_type, arg_provider)
  /\ pf_result' = Final(pf_layers', arg_doc_type, arg_threshold)
  /\ pf_pc' = "returned"
  /\ UNCHANGED <<arg_raw_text, arg_doc_type, arg_threshold, arg_provider,
                 pf_sent, pf_prev, reconcileVars, serverVars>>

\* the exception of _call_openai_json leaves parse_fields before layer C ends
ParseFieldsRaises ==
  /\ pf_pc = "idle"
  /\ ParseRaises(arg_doc_type, arg_provider)
  /\ pf_pc' = "raised"
  /\ UNCHANGED <<arg_raw_text, arg_doc_type, arg_threshold, arg_provider,
                 pf_layers, pf_result, pf_sent, pf_prev, reconcileVars, serverVars>>

NextResolve == ParseFields \/ ParseFieldsRaises

SpecResolve == InitResolve /\ [][NextResolve]_vars

(***************************************************************************)
(* Properties of parse_fields                                              *)
(***************************************************************************)
\* what layer B finds for a field when it looks, resolved already or not
ContextOf(f) ==
  ContextCandidate(NormalizedLines(arg_raw_text), 1, AliasesMap(arg_doc_type)[f], f)

\* what the provider answers for a field
AnswerOf(f) ==
  IF arg_provider.kind = "answer" THEN normalize_spaces(Get(arg_provider.parsed, f)) ELSE ""

\* C3: a field for which layer A produced a candidate is returned with layer
\* A's value and source A, whatever layers B and C find for it; a field for
\* which layer A produced none and layer B produced one is returned with
\* layer B's value and source B, whatever layer C finds for it.
C3_EarlierLayerWins ==
  pf_pc = "returned" =>
    \A f \in FieldSet :
      /\ f \in DOMAIN pf_layers.a =>
           /\ pf_result[f].value = pf_layers.a[f].value
           /\ pf_result[f].source_layer = "A"
      /\ (f \notin DOMAIN pf_layers.a /\ f \in DOMAIN pf_layers.b) =>
           /\ pf_result[f].value = pf_layers.b[f].value
           /\ pf_result[f].source_layer = "B"

\* a returned call where layer A resolved a field for which layer B and the
\* provider both hold another value, and layer B resolved a further field
\* for which the provider holds another value
C3_Witness ==
  /\ pf_pc = "returned"
  /\ \E f \in DOMAIN pf_layers.a :
       /\ ContextOf(f).some /\ ContextOf(f).value # pf_layers.a[f].value
       /\ AnswerOf(f) \notin {"", pf_layers.a[f].value}
       /\ pf_result[f].value = pf_layers.a[f].value
  /\ \E g \in DOMAIN pf_layers.b \ DOMAIN pf_layers.a :
       /\ AnswerOf(g) \notin {"", pf_layers.b[g].value}
       /\ pf_result[g].value = pf_layers.b[g].value

\* the fields a role declares in its profile
DeclaredScope(doc_type) == Range(DOC_TYPE_PROFILES[LowerDocType(doc_type)].field_priority)

\* C4: for each of the three roles and every text, a canonical field outside
\* the role's declared scope is returned with an empty value, source_layer
\* ignored, confidence 0 and pending_review false, whatever the text or the
\* provider holds for it.
C4_OutOfScopeIgnored ==
  (pf_pc = "returned" /\ LowerDocType(arg_doc_type) \in DocTypeSet) =>
    \A f \in FieldSet \ DeclaredScope(arg_doc_type) :
      pf_result[f] = [value |-> "", source_layer |-> "ignored",
                      confidence |-> 0, pending_review |-> FALSE]

\* a returned call for a role where the text holds an alias line with a
\* value for an out-of-scope field and the provider answers for it too
C4_Witness ==
  /\ pf_pc = "returned"
  /\ LowerDocType(arg_doc_type) \in DocTypeSet
  /\ \E f \in FieldSet \ DeclaredScope(arg_doc_type) :
       /\ LineCandidate(NormalizedLines(arg_raw_text), ALIASES[f], f).some
       /\ AnswerOf(f) # ""
       /\ pf_result[f].source_layer = "ignored"

\* C5: a field returned with a value (source_layer A, B or C) reports a
\* confidence between 0.0 and 1.0 and is pending review exactly when that
\* confidence is below the threshold of the call.
C5_ConfidenceAndPending ==
  pf_pc = "returned" =>
    \A f \in FieldSet :
      pf_result[f].source_layer \in {"A", "B", "C"} =>
        /\ 0 <= pf_result[f].confidence /\ pf_result[f].confidence <= 100
        /\ pf_result[f].pending_review <=> (pf_result[f].confidence < arg_threshold)

\* a returned call with a valued field of each layer: one exactly at the
\* threshold, one below it and one above it
C5_Witness ==
  /\ pf_pc = "returned"
  /\ \E f, g, h \in FieldSet :
       /\ {pf_result[f].source_layer, pf_result[g].source_layer,
           pf_result[h].source_layer} = {"A", "B", "C"}
       /\ pf_result[f].confidence = arg_threshold /\ ~pf_result[f].pending_review
       /\ pf_result[g].confidence < arg_threshold /\ pf_result[g].pending_review
       /\ pf_result[h].confidence > arg_threshold /\ ~pf_result[h].pending_review

(***************************************************************************)
(* app.py: the session registry and the endpoints that write and read it.  *)
(* uuid.uuid4() is a session id not handed out before.  A request of       *)
(* process_doc carries the doc_type of the URL, the session_id of the      *)
(* form, the uploaded file and, outside the program, what the PDF          *)
(* extraction and the inference provider do when called.                   *)
(***************************************************************************)
SessionIds == {"s1", "s2"}

\* session_id values of the requests: ids handed out or not yet, and none
RequestSids == SessionIds \cup {""}

\* doc_type values of the URL
RequestDocTypes == DocTypeSet \cup {"other"}

NoFile == [present |-> FALSE, filename |-> ""]

Files ==
  { NoFile,
    [present |-> TRUE, filename |-> "B.PDF"],
    [present |-> TRUE, filename |-> "c.txt"] }

\* file.filename.lower().endswith(".pdf")
EndsWithPdf(filename) == filename = "B.PDF"

\* extract_text_from_pdf raises, or returns a str: the native text when it
\* has 30 characters or more after normalisation, else the OCR text when it
\* is not blank.  A str is the sequence of its characters; the two below
\* are OCR texts.
Extractions ==
  { [kind |-> "raise", chars |-> <<>>],
    [kind |-> "str", chars |-> <<"A", "1", "x", "y">>],
    [kind |-> "str", chars |-> <<"I", "N", "V", "-", "1">>] }

\* line 414: the four-way unpacking of the returned str succeeds exactly
\* when the str has four characters
UnpackSucceeds(extraction) ==
  extraction.kind = "str" /\ Len(extraction.chars) = 4

\* lines 418-428: text is the first character, ocr_quality the second,
\* low_ocr_confidence the third (a non-empty str, read only for its truth),
\* extraction_method the fourth; parse_line_items finds no item in one
\* character
DocumentData(doc_type, file, extraction, provider, at) ==
  [ doc_type |-> doc_type,
    filename |-> file.filename,
    extracted_at |-> at,
    raw_text_preview |-> extraction.chars[1],
    fields |-> parse_fields(<<extraction.chars[1]>>, doc_type, CONFIDENCE_THRESHOLD, provider),
    line_items |-> <<>>,
    extraction_method |-> extraction.chars[4],
    low_ocr_confidence |-> extraction.chars[3] # "",
    ocr_quality |-> extraction.chars[2] ]

\* line 429, keeping a record the role holds already
StoreDocument_KeepFirst(session, doc_type, doc) == session @@ (doc_type :> doc)

\* line 429: SESSIONS[sid][doc_type] = doc
StoreDocument(session, doc_type, doc) == (doc_type :> doc) @@ session

\* the status code of process_doc's response, lines 401-416 and 431; an
\* exception of parse_fields is not caught and is answered with 500
ProcessStatus(doc_type, sid, file, extraction, provider) ==
  CASE doc_type \notin {"invoice", "packing_list", "bl"} -> 400
    [] sid = "" \/ sid \notin DOMAIN SESSIONS -> 400
    [] ~file.present \/ ~EndsWithPdf(file.filename) -> 400
    [] ~UnpackSucceeds(extraction) -> 500
    [] ParseRaises(doc_type, provider) -> 500
    [] OTHER -> 200

NoDocument == <<>>

MaxUploads == 3

\* an analyze call that has read the session map and has not returned
Analysing == cmp_pc \in {"rows", "missing", "completeness", "low_quality", "finish"}

CreateSession(sid) ==
  /\ sid \notin DOMAIN SESSIONS
  /\ SESSIONS' = (sid :> <<>>) @@ SESSIONS
  /\ UNCHANGED <<now, responses, an_sid, an_i, seen, reconcileVars, resolveVars>>

ProcessDoc(doc_type, sid, file, extraction, provider) ==
  /\ Len(responses) < MaxUploads
  /\ now' = now + 1
  /\ IF ProcessStatus(doc_type, sid, file, extraction, provider) = 200
     THEN LET doc == DocumentData(doc_type, file, extraction, provider, now)
          IN  /\ SESSIONS' = [SESSIONS EXCEPT ![sid] = StoreDocument(@, doc_type, doc)]
              /\ responses' = Append(responses,
                   [status |-> 200, sid |-> sid, doc_type |-> doc_type, document |-> doc])
              /\ seen' = IF Analysing /\ an_sid = sid
                         THEN seen \cup {StoreDocument(SESSIONS[sid], doc_type, doc)}
                         ELSE seen
     ELSE /\ responses' = Append(responses,
               [status |-> ProcessStatus(doc_type, sid, file, extraction, provider),
                sid |-> "", doc_type |-> "", document |-> NoDocument])
          /\ UNCHANGED <<SESSIONS, seen>>
  /\ UNCHANGED <<an_sid, an_i, reconcileVars, resolveVars>>

\* analyze with no other request running meanwhile
Analyze(sid) ==
  /\ cmp_pc = "idle"
  /\ IF sid = "" \/ sid \notin DOMAIN SESSIONS
     THEN cmp_pc' = "refused" /\ UNCHANGED result
     ELSE cmp_pc' = "done" /\ result' = compare_docs(SESSIONS[sid])
  /\ UNCHANGED <<REQUIRED_FIELDS_BY_DOC, session_docs, acc, resolveVars, serverVars>>

(***************************************************************************)
(* SpecUploads: sessions are created and documents uploaded in any order.  *)
(***************************************************************************)
UploadProviders ==
  { [kind |-> "no_key", parsed |-> <<>>],
    [kind |-> "not_an_object", parsed |-> <<>>],
    [kind |-> "answer", parsed |-> ProviderAnswer] }

InitUploads ==
  /\ REQUIRED_FIELDS_BY_DOC = CHOOSE r \in RequiredOptions : DOMAIN r = DocTypeSet
  /\ session_docs = <<>>
  /\ cmp_pc = "idle"
  /\ acc = NoLocals
  /\ result = NoResult
  /\ ResolveIdle
  /\ ServerIdle

NextUploads ==
  \/ \E sid \in SessionIds : CreateSession(sid)
  \/ \E doc_type \in RequestDocTypes, sid \in RequestSids, file \in Files,
        extraction \in Extractions, provider \in UploadProviders :
       ProcessDoc(doc_type, sid, file, extraction, provider)
  \/ \E sid \in RequestSids : Analyze(sid)

SpecUploads == InitUploads /\ [][NextUploads]_vars

(***************************************************************************)
(* Properties of the session registry                                      *)
(***************************************************************************)
\* the positions in `responses` of the successful uploads for a role of a session
UploadsFor(sid, role) ==
  {i \in DOMAIN responses :
     /\ responses[i].status = 200
     /\ responses[i].sid = sid
     /\ responses[i].doc_type = role}

LastOf(positions) == CHOOSE i \in positions : \A j \in positions : j <= i

\* C9: after any sequence of uploads a session holds at most one record per
\* role, only for the three roles; a role nobody uploaded successfully holds
\* none, and every other role holds, whole, the record its most recent
\* successful upload created, whatever was uploaded since for other roles
\* or other sessions.
C9_LastUploadHeld ==
  \A sid \in DOMAIN SESSIONS :
    /\ DOMAIN SESSIONS[sid] \subseteq DocTypeSet
    /\ \A role \in DocTypeSet :
         IF UploadsFor(sid, role) = {}
         THEN role \notin DOMAIN SESSIONS[sid]
         ELSE /\ role \in DOMAIN SESSIONS[sid]
              /\ SESSIONS[sid][role] = responses[LastOf(UploadsFor(sid, role))].document

\* three successful uploads: the third replaces the record of the first,
\* with another record, and the second, for another role or another
\* session, is still held
C9_Witness ==
  /\ Len(responses) = 3
  /\ \A i \in 1..3 : responses[i].status = 200
  /\ responses[1].sid = responses[3].sid
  /\ responses[1].doc_type = responses[3].doc_type
  /\ responses[1].document.fields # responses[3].document.fields
  /\ <<responses[2].sid, responses[2].doc_type>> # <<responses[1].sid, responses[1].doc_type>>
  /\ SESSIONS[responses[3].sid][responses[3].doc_type] = responses[3].document
  /\ SESSIONS[responses[2].sid][responses[2].doc_type] = responses[2].document

(***************************************************************************)
(* SpecConcurrent: analyze runs in one thread of the server while uploads  *)
(* for the same session run in others.  analyze hands compare_docs the     *)
(* dict SESSIONS[sid] itself, so every statement of compare_docs reads the *)
(* session map as it is when the statement runs.                           *)
(***************************************************************************)
MaxConcurrentUploads == 2

\* analyze, lines 436-439: the request is refused
AnalyzeRefused(sid) ==
  /\ cmp_pc = "idle"
  /\ sid = "" \/ sid \notin DOMAIN SESSIONS
  /\ cmp_pc' = "refused"
  /\ UNCHANGED <<REQUIRED_FIELDS_BY_DOC, session_docs, acc, result, resolveVars, serverVars>>

\* analyze, lines 436-441, and compare_docs up to the end of line 299
AnalyzeBegin(sid) ==
  /\ cmp_pc = "idle"
  /\ sid # "" /\ sid \in DOMAIN SESSIONS
  /\ an_sid' = sid
  /\ acc' = InitCompare(SESSIONS[sid])
  /\ cmp_pc' = "rows"
  /\ an_i' = 1
  /\ seen' = {SESSIONS[sid]}
  /\ UNCHANGED <<REQUIRED_FIELDS_BY_DOC, session_docs, result, resolveVars,
                 SESSIONS, now, responses>>

\* compare_docs, lines 301-315: one pass of the loop over COMPARATIVE_FIELDS
AnalyzeRow ==
  /\ cmp_pc = "rows"
  /\ acc' = RowStep(acc, SESSIONS[an_sid], an_i)
  /\ IF an_i = Len(COMPARATIVE_FIELDS)
     THEN cmp_pc' = "missing" /\ an_i' = 1
     ELSE cmp_pc' = cmp_pc /\ an_i' = an_i + 1
  /\ UNCHANGED <<REQUIRED_FIELDS_BY_DOC, session_docs, result, resolveVars,
                 SESSIONS, now, responses, an_sid, seen>>

\* compare_docs, lines 317-319
AnalyzeMissing ==
  /\ cmp_pc = "missing"
  /\ acc' = MissingDocsStep(acc, SESSIONS[an_sid])
  /\ cmp_pc' = "completeness"
  /\ UNCHANGED <<REQUIRED_FIELDS_BY_DOC, session_docs, result, resolveVars, serverVars>>

\* compare_docs, lines 321-370: one pass of the loop over DOC_TYPES
AnalyzeCompleteness ==
  /\ cmp_pc = "completeness"
  /\ acc' = CompletenessStep(acc, SESSIONS[an_sid], DOC_TYPES[an_i])
  /\ IF an_i = Len(DOC_TYPES)
     THEN cmp_pc' = "low_quality" /\ an_i' = 1
     ELSE cmp_pc' = cmp_pc /\ an_i' = an_i + 1
  /\ UNCHANGED <<REQUIRED_FIELDS_BY_DOC, session_docs, result, resolveVars,
                 SESSIONS, now, responses, an_sid, seen>>

\* compare_docs, lines 372-376
AnalyzeLowQuality ==
  /\ cmp_pc = "low_quality"
  /\ acc' = LowQualityStep(acc, SESSIONS[an_sid])
  /\ cmp_pc' = "finish"
  /\ UNCHANGED <<REQUIRED_FIELDS_BY_DOC, session_docs, result, resolveVars, serverVars>>

\* compare_docs, lines 378-384, and the response of analyze
AnalyzeFinish ==
  /\ cmp_pc = "finish"
  /\ result' = FinishCompare(acc)
  /\ cmp_pc' = "done"
  /\ UNCHANGED <<REQUIRED_FIELDS_BY_DOC, session_docs, acc, resolveVars, serverVars>>

FourCharacters == [kind |-> "str", chars |-> <<"A", "1", "x", "y">>]

ConcurrentProviders ==
  { [kind |-> "no_key", parsed |-> <<>>],
    [kind |-> "answer", parsed |-> ProviderAnswer] }

InitConcurrent ==
  /\ REQUIRED_FIELDS_BY_DOC \in RequiredOptions
  /\ session_docs = <<>>
  /\ cmp_pc = "idle"
  /\ acc = NoLocals
  /\ result = NoResult
  /\ ResolveIdle
  /\ ServerIdle

NextConcurrent ==
  \/ CreateSession("s1")
  \/ /\ Len(responses) < MaxConcurrentUploads
     /\ \E doc_type \in DocTypeSet, provider \in ConcurrentProviders :
          ProcessDoc(doc_type, "s1", [present |-> TRUE, filename |-> "B.PDF"],
                     FourCharacters, provider)
  \/ AnalyzeRefused("s1")
  \/ AnalyzeBegin("s1")
  \/ AnalyzeRow
  \/ AnalyzeMissing
  \/ AnalyzeCompleteness
  \/ AnalyzeLowQuality
  \/ AnalyzeFinish

SpecConcurrent == InitConcurrent /\ [][NextConcurrent]_vars

\* C10: when an upload for the session runs while analyze does, the result
\* analyze returns is the one compare_docs computes on a single state of
\* the session map, one of the states the map went through during the call
\* (before or after the upload): matrix, document_present flags,
\* completeness counts and missing-documents pendency describe one set of
\* records.
C10_ResultOfOneState ==
  cmp_pc = "done" => \E s \in seen : result = compare_docs(s)

(***************************************************************************)
(* Properties of the provider call inside parse_fields                     *)
(***************************************************************************)
\* provider behaviours that give no key-to-string map
UnusableProviderKinds ==
  {"no_key", "url_error", "no_answer", "empty_content", "bad_json", "not_an_object"}

\* C11: when the provider is unavailable, fails, or returns output that is
\* no key-to-string map, parse_fields raises nothing: it returns a complete
\* map, the one the local heuristic pass gives for the pending fields.
C11_ProviderFailureFallsBack ==
  (pf_pc # "idle" /\ arg_provider.kind \in UnusableProviderKinds) =>
    /\ pf_pc = "returned"
    /\ DOMAIN pf_result = FieldSet
    /\ pf_result = parse_fields(arg_raw_text, arg_doc_type, arg_threshold,
                                [kind |-> "no_key", parsed |-> <<>>])

(***************************************************************************)
(* The plausibility checks, as the specification words them, over the      *)
(* values the bounded texts and the provider answer can give.              *)
(***************************************************************************)
\* number of digits of a value
DigitCount(v) ==
  CASE v = "INV-2024-0001" -> 8
    [] v = "2024-01-05" -> 8
    [] v = " 2024-01-05" -> 8
    [] v = "2024" -> 4
    [] v = "LLM-0001" -> 4
    [] OTHER -> 0

\* number of whitespace-separated tokens of a value
TokenCount(v) ==
  CASE v \in {"", " - "} -> IF v = "" THEN 0 ELSE 1
    [] v \in {"INVOICE NUMBER", "Invoice No", "LLM PORT"} -> 2
    [] v = "Port of Loading" -> 3
    [] OTHER -> 1

DenylistedLabels == {"consignee", "date", "order no"}

IdentifierFields ==
  {"document_number", "invoice_number", "packing_list_number", "bl_number",
   "po_number", "ncm"}

AmountFields ==
  {"freight_value", "total_value", "net_weight", "gross_weight",
   "volume_cbm", "package_count"}

EntityFields == {"shipper", "consignee"}

PlaceFields ==
  {"origin_country", "provenance_country", "acquisition_country",
   "destination_country", "pol", "pod"}

Plausible(field, value) ==
  /\ value # ""
  /\ Lower(value) \notin DenylistedLabels
  /\ field \in IdentifierFields \cup AmountFields => DigitCount(value) >= 1
  /\ field = "consignee_cnpj" => DigitCount(value) = 14
  /\ field \in EntityFields => (TokenCount(value) >= 2 \/ DigitCount(value) >= 1)
  /\ field \in PlaceFields => DigitCount(value) = 0

\* C12: no field is returned from layer A, B or C with a value that fails
\* the plausibility checks.
C12_ImplausibleNeverReported ==
  pf_pc = "returned" =>
    \A f \in FieldSet :
      pf_result[f].source_layer \in {"A", "B", "C"} =>
        Plausible(f, pf_result[f].value)

\* C15: in a returned call, a field still pending after layer A whose alias
\* stands alone on a line (no value, no separator) and whose value-shaped
\* text is on the next line is resolved by layer B to the value of that next
\* line, with confidence 0.8, and not to text of the label line.
C15_VerticalLayoutResolved ==
  (/\ pf_pc = "returned"
   /\ "invoice_number" \in Range(FieldsPriority(arg_doc_type))
   /\ "invoice_number" \notin DOMAIN pf_layers.a
   /\ \E i \in 1..(Len(arg_raw_text) - 1) :
        /\ arg_raw_text[i] = "INVOICE NUMBER"
        /\ arg_raw_text[i + 1] = "INV-2024-0001") =>
    /\ pf_layers.b["invoice_number"] = FieldCandidate("INV-2024-0001", 80)
    /\ pf_result["invoice_number"].value = "INV-2024-0001"
    /\ pf_result["invoice_number"].source_layer = "B"
    /\ pf_result["invoice_number"].confidence = 80

\* the fixed confidence of each layer, in hundredths
LayerConfidence(source_layer) ==
  CASE source_layer = "A" -> 92
    [] source_layer = "B" -> 80
    [] source_layer = "C" -> 70

\* C19: every field returned with a value carries the source_layer of the
\* layer that produced its candidate and that layer's fixed confidence,
\* document_number copied from the role's number field included.
C19_SourceAndConfidenceAgree ==
  pf_pc = "returned" =>
    \A f \in FieldSet :
      pf_result[f].value # "" =>
        /\ pf_result[f].source_layer \in {"A", "B", "C"}
        /\ pf_result[f].confidence = LayerConfidence(pf_result[f].source_layer)
        /\ pf_result[f].source_layer = "A" => f \in DOMAIN pf_layers.a
        /\ pf_result[f].source_layer = "B" => f \in DOMAIN pf_layers.b

(***************************************************************************)
(* SpecSynthesized: compare_docs on sessions whose records differ in which *)
(* number fields and which date fields they populate, each populated field *)
(* with a value of its own.                                                *)
(***************************************************************************)
DateKeys == {"issue_date", "shipment_date", "issue_or_shipment_date", "etd", "eta"}

DateValue(k) ==
  CASE k = "issue_date" -> "2024-01-01"
    [] k = "shipment_date" -> "2024-01-02"
    [] k = "issue_or_shipment_date" -> "2024-01-03"
    [] k = "etd" -> "2024-01-04"
    [] k = "eta" -> "2024-01-05"

\* the number fields a record populates
NumberShapes ==
  { {}, {"own"}, {"document_number"}, {"own", "document_number"} }

\* the date fields a record populates
DateShapes ==
  { {}, {"eta"}, {"shipment_date", "etd"}, {"issue_date", "issue_or_shipment_date", "eta"} }

SynthDoc(doc_type, numbers, dates) ==
  LET keys == {"consignee"} \cup dates
                \cup (IF "own" \in numbers THEN {NumberField(doc_type)} ELSE {})
                \cup (numbers \ {"own"})
  IN [ doc_type |-> doc_type,
       filename |-> doc_type,
       extracted_at |-> 0,
       fields |-> [k \in keys |->
                     [ value |-> IF k \in DateKeys THEN DateValue(k) ELSE BaseValue(k),
                       source_layer |-> "A",
                       confidence |-> 100,
                       pending_review |-> FALSE ]],
       low_ocr_confidence |-> FALSE ]

SynthShapes == {[numbers |-> n, dates |-> t] : n \in NumberShapes, t \in DateShapes}

SynthRequired ==
  [d \in DocTypeSet |-> <<"document_number", "issue_or_shipment_date", "consignee", "etd">>]

InitSynthesized ==
  /\ REQUIRED_FIELDS_BY_DOC = SynthRequired
  /\ \E pick \in [DocTypeSet -> SynthShapes \cup {Absent}] :
       session_docs = [d \in {e \in DocTypeSet : pick[e] # Absent} |->
                         SynthDoc(d, pick[d].numbers, pick[d].dates)]
  /\ cmp_pc = "idle"
  /\ acc = NoLocals
  /\ result = NoResult
  /\ ResolveIdle
  /\ ServerIdle

NextSynthesized == CompareDocs

SpecSynthesized == InitSynthesized /\ [][NextSynthesized]_vars

\* the role's own number field
RoleNumberField(d) ==
  CASE d = "invoice" -> "invoice_number"
    [] d = "packing_list" -> "packing_list_number"
    [] d = "bl" -> "bl_number"

\* the value a role reports for a field, as the claim words it
ResolvedCell(sd, d, key) ==
  IF d \notin DOMAIN sd THEN ""
  ELSE LET v(k) == FieldValue(sd[d], k) IN
       IF key = "document_number"
       THEN IF v(RoleNumberField(d)) # "" THEN v(RoleNumberField(d)) ELSE v("document_number")
       ELSE IF key = "issue_or_shipment_date"
       THEN IF v("issue_date") # "" THEN v("issue_date")
            ELSE IF v("shipment_date") # "" THEN v("shipment_date")
            ELSE IF v("issue_or_shipment_date") # "" THEN v("issue_or_shipment_date")
            ELSE IF v("etd") # "" THEN v("etd")
            ELSE v("eta")
       ELSE v(key)

\* C20: the matrix cells of "document number" and "issue-or-shipment date"
\* hold the role's own number field, else document_number, and the first
\* non-empty of issue_date, shipment_date, issue_or_shipment_date, etd, eta;
\* the divergence check, the comparative count and the required-field check
\* use the same resolved values.
C20_SynthesizedCells ==
  cmp_pc = "done" =>
    /\ \A i \in DOMAIN COMPARATIVE_FIELDS :
         LET key == COMPARATIVE_FIELDS[i].key
             cells == {ResolvedCell(session_docs, d, key) : d \in DocTypeSet} \ {""}
         IN /\ \A d \in DocTypeSet :
                 result.matrix[i][d] = ResolvedCell(session_docs, d, key)
            /\ (DivergenceFinding(COMPARATIVE_FIELDS[i].label) \in Range(result.divergences))
                 <=> Cardinality({Lower(c) : c \in cells}) > 1
    /\ \A d \in DOMAIN session_docs :
         LET m == result.completeness[d] IN
         /\ m.filled_comparative_fields =
              Cardinality({i \in DOMAIN COMPARATIVE_FIELDS :
                             ResolvedCell(session_docs, d, COMPARATIVE_FIELDS[i].key) # ""})
         /\ Range(m.missing_required_fields) =
              {f \in Range(m.required_fields) : ResolvedCell(session_docs, d, f) = ""}
         /\ m.filled_required_fields =
              m.total_required_fields - Len(m.missing_required_fields)

\* the invoice carries its own number and a document_number, the packing
\* list only a document_number, the bill of lading none; the dates come from
\* issue_date, shipment_date and eta
C20_Witness ==
  /\ cmp_pc = "done"
  /\ DOMAIN session_docs = DocTypeSet
  /\ FieldValue(session_docs["invoice"], "invoice_number") = "INV-001"
  /\ FieldValue(session_docs["invoice"], "document_number") = "DOC-9"
  /\ result.matrix[1]["invoice"] = "INV-001"
  /\ result.matrix[1]["packing_list"] = "DOC-9"
  /\ result.matrix[1]["bl"] = ""
  /\ FieldValue(session_docs["invoice"], "eta") = "2024-01-05"
  /\ result.matrix[2]["invoice"] = "2024-01-01"
  /\ FieldValue(session_docs["packing_list"], "etd") = "2024-01-04"
  /\ result.matrix[2]["packing_list"] = "2024-01-02"
  /\ result.matrix[2]["bl"] = "2024-01-05"
  /\ DivergenceFinding("Número do documento") \in Range(result.divergences)
  /\ result.completeness["bl"].missing_required_fields = <<"document_number", "etd">>
  /\ result.completeness["bl"].filled_comparative_fields = 2

\* the OCRPageMetric items a record's ocr_quality holds; the text character
\* that process_doc stores there holds none
PageMetricsOf(doc) ==
  IF doc.ocr_quality \in STRING THEN <<>> ELSE doc.ocr_quality

\* estimated_confidence below 0.6 (in hundredths) or valid_words below 5
WeakPage(metric) ==
  metric.estimated_confidence < 60 \/ metric.valid_words < 5

\* C13: the low_ocr_confidence flag of every stored record is true exactly
\* when one of the record's page metrics is weak: one weak page flags the
\* document, and a document with no weak page is not flagged.
C13_FlagIffWeakPage ==
  \A sid \in DOMAIN SESSIONS :
    \A d \in DOMAIN SESSIONS[sid] :
      SESSIONS[sid][d].low_ocr_confidence
        <=> \E k \in DOMAIN PageMetricsOf(SESSIONS[sid][d]) :
              WeakPage(PageMetricsOf(SESSIONS[sid][d])[k])

(***************************************************************************)
(* SpecCalls: parse_fields taken in steps around the one place where it    *)
(* waits, request.urlopen in _call_openai_json, and called a second time   *)
(* with the same raw_text, doc_type and confidence_threshold.  What the    *)
(* provider does is drawn anew for the second call: the key is read from   *)
(* the environment, and the answer comes over the network, at each call.   *)
(***************************************************************************)
MaxCallLines == 1

CallTexts == UNION {[1..n -> RawLines] : n \in 0..MaxCallLines}

CallProviders == Providers \cup {[kind |-> "no_answer", parsed |-> <<>>]}

\* len(line)
LineLength(line) ==
  CASE line = "Invoice No: INV-2024-0001" -> 25
    [] line = "INVOICE NUMBER" -> 14
    [] line = "INV-2024-0001" -> 13
    [] line = "  Port of Loading:  SANTOS " -> 27
    [] line = "ETD: 2024-01-05" -> 15
    [] line = "A" -> 1
    [] line = "" -> 0

\* len(raw_text): the lines and the newlines between them
RECURSIVE TextLength(_)
TextLength(raw_text) ==
  IF raw_text = <<>> THEN 0
  ELSE IF Len(raw_text) = 1 THEN LineLength(Head(raw_text))
  ELSE LineLength(Head(raw_text)) + 1 + TextLength(Tail(raw_text))

\* the prompt, as the schema keys it lists and the length of its text sample
_build_llm_prompt(raw_text, fields_priority) ==
  [keys |-> fields_priority, sample_length |-> Min(TextLength(raw_text), 12000)]

\* "if not api_key: return None" is the negation of this
HasApiKey(provider) == provider.kind # "no_key"

\* urlopen without timeout: a provider that sends nothing is waited for
UrlopenEnds_NoTimeout(provider) == provider.kind # "no_answer"

\* request.urlopen(req, timeout=20) returns or raises whatever the provider
\* does: the timeout ends the wait for one that sends nothing
UrlopenEnds(provider) == TRUE

\* what layer C and the rest of parse_fields make of each call of SpecCalls,
\* worked out once for all of them
CallOutcomes ==
  { [raw_text |-> t, doc_type |-> d, provider |-> p,
     raises |-> ParseRaises(d, p),
     layers |-> IF ParseRaises(d, p) THEN <<>> ELSE Layers(t, d, p),
     result |-> IF ParseRaises(d, p) THEN <<>>
                ELSE parse_fields(t, d, CONFIDENCE_THRESHOLD, p)] :
      t \in CallTexts, d \in DocTypeArgs, p \in CallProviders }

CallOutcome(raw_text, doc_type, provider) ==
  CHOOSE o \in CallOutcomes :
    o.raw_text = raw_text /\ o.doc_type = doc_type /\ o.provider = provider

InitCalls ==
  /\ arg_raw_text \in CallTexts
  /\ arg_doc_type \in DocTypeArgs
  /\ arg_threshold = CONFIDENCE_THRESHOLD
  /\ arg_provider \in CallProviders
  /\ pf_pc = "idle"
  /\ pf_layers = <<>>
  /\ pf_result = <<>>
  /\ pf_sent = <<>>
  /\ pf_prev = <<>>
  /\ ReconcileIdle
  /\ ServerIdle

\* parse_fields up to urlopen: layers A and B, then the prompt and the request
ParseFieldsToRequest ==
  /\ pf_pc = "idle"
  /\ LET fields_priority == FieldsPriority(arg_doc_type)
         aliases_map == AliasesMap(arg_doc_type)
         layer_a == layer_a_alias_regex(NormalizedLines(arg_raw_text),
                                        fields_priority, aliases_map)
         layer_b == layer_b_context(arg_raw_text, layer_a, fields_priority, aliases_map)
     IN  /\ pf_layers' = [a |-> layer_a, b |-> layer_b, c |-> layer_b]
         /\ IF HasApiKey(arg_provider)
            THEN /\ pf_sent' = Append(pf_sent, _build_llm_prompt(arg_raw_text, fields_priority))
                 /\ pf_pc' = "awaiting"
            ELSE /\ pf_sent' = pf_sent
                 /\ pf_pc' = "local"
  /\ UNCHANGED <<arg_raw_text, arg_doc_type, arg_threshold, arg_provider,
                 pf_result, pf_prev, reconcileVars, serverVars>>

\* urlopen ends and parse_fields runs on to its return
UrlopenReturns ==
  /\ pf_pc = "awaiting"
  /\ UrlopenEnds(arg_provider)
  /\ ~CallOutcome(arg_raw_text, arg_doc_type, arg_provider).raises
  /\ pf_layers' = CallOutcome(arg_raw_text, arg_doc_type, arg_provider).layers
  /\ pf_result' = CallOutcome(arg_raw_text, arg_doc_type, arg_provider).result
  /\ pf_pc' = "returned"
  /\ UNCHANGED <<arg_raw_text, arg_doc_type, arg_threshold, arg_provider,
                 pf_sent, pf_prev, reconcileVars, serverVars>>

\* urlopen ends and _call_openai_json raises on the content
UrlopenThenRaises ==
  /\ pf_pc = "awaiting"
  /\ UrlopenEnds(arg_provider)
  /\ CallOutcome(arg_raw_text, arg_doc_type, arg_provider).raises
  /\ pf_pc' = "raised"
  /\ UNCHANGED <<arg_raw_text, arg_doc_type, arg_threshold, arg_provider,
                 pf_layers, pf_result, pf_sent, pf_prev, reconcileVars, serverVars>>

\* no key: _call_openai_json returns None at once and the call runs on
NoRequest ==
  /\ pf_pc = "local"
  /\ pf_layers' = CallOutcome(arg_raw_text, arg_doc_type, arg_provider).layers
  /\ pf_result' = CallOutcome(arg_raw_text, arg_doc_type, arg_provider).result
  /\ pf_pc' = "returned"
  /\ UNCHANGED <<arg_raw_text, arg_doc_type, arg_threshold, arg_provider,
                 pf_sent, pf_prev, reconcileVars, serverVars>>

\* the caller calls parse_fields once more with the same arguments
ParseFieldsAgain ==
  /\ pf_pc \in {"returned", "raised"}
  /\ pf_prev = <<>>
  /\ arg_provider' \in CallProviders
  /\ pf_prev' = <<[pc |-> pf_pc, result |-> pf_result, provider |-> arg_provider]>>
  /\ pf_pc' = "idle"
  /\ pf_layers' = <<>>
  /\ pf_result' = <<>>
  /\ pf_sent' = <<>>
  /\ UNCHANGED <<arg_raw_text, arg_doc_type, arg_threshold, reconcileVars, serverVars>>

NextCalls ==
  \/ ParseFieldsToRequest
  \/ UrlopenReturns
  \/ UrlopenThenRaises
  \/ NoRequest
  \/ ParseFieldsAgain

\* a call that was made runs: nothing in parse_fields waits except urlopen,
\* and urlopen is given a timeout
SpecCalls ==
  /\ InitCalls
  /\ [][NextCalls]_vars
  /\ WF_vars(UrlopenReturns)
  /\ WF_vars(UrlopenThenRaises)
  /\ WF_vars(NoRequest)

\* C14: two calls of parse_fields with the same raw text and the same
\* document type return the same map.
C14_SameInputSameMap ==
  (pf_prev # <<>> /\ pf_pc = "returned" /\ pf_prev[1].pc = "returned") =>
    pf_result = pf_prev[1].result

\* C16: a call of parse_fields sends at most one request to the provider
\* and none without a key, every call that was started ends, and a call
\* whose provider does not answer returns, after the timeout, what the
\* local heuristic gives.
C16_OneRequestAndCompletes ==
  /\ [](Len(pf_sent) <= 1)
  /\ [](arg_provider.kind = "no_key" => pf_sent = <<>>)
  /\ []((pf_pc \in {"returned", "raised"} /\ arg_provider.kind = "no_answer") =>
          /\ pf_pc = "returned"
          /\ Len(pf_sent) = 1
          /\ pf_result = parse_fields(arg_raw_text, arg_doc_type, arg_threshold,
                                      [kind |-> "no_key", parsed |-> <<>>]))
  /\ (pf_pc \in {"awaiting", "local"}) ~> (pf_pc \in {"returned", "raised"})

\* the provider did not answer: one request was sent, and the invoice's
\* document_number comes from the heuristic pass
C16_Witness ==
  /\ pf_pc = "returned"
  /\ arg_provider.kind = "no_answer"
  /\ Len(pf_sent) = 1
  /\ arg_raw_text = <<"Invoice No: INV-2024-0001">>
  /\ arg_doc_type = "invoice"
  /\ pf_result["document_number"].value = "INV-2024-0001"
  /\ pf_result["document_number"].source_layer = "C"

\* C17: the request lists exactly the in-scope fields that layers A and B
\* left unresolved, and its text sample has at most 12,000 characters.
C17_PromptListsPendingFields ==
  \A i \in DOMAIN pf_sent :
    /\ Range(pf_sent[i].keys) =
         Range(FieldsPriority(arg_doc_type)) \ DOMAIN pf_layers.b
    /\ pf_sent[i].sample_length <= 12000

\* the value the call reports for the first of the fields that has one
RECURSIVE FirstReported(_)
FirstReported(fields) ==
  IF fields = <<>> THEN ""
  ELSE IF pf_result[Head(fields)].value # "" THEN pf_result[Head(fields)].value
  ELSE FirstReported(Tail(fields))

\* C18: in a call whose layer C ran the local heuristic pass with
\* issue_or_shipment_date still empty, the field ends with the first
\* non-empty of issue_date, shipment_date, etd and eta, and is empty only
\* when all four are.
C18_DateMirrored ==
  (/\ pf_pc = "returned"
   /\ arg_provider.kind \in UnusableProviderKinds
   /\ "issue_or_shipment_date" \in Range(FieldsPriority(arg_doc_type))
   /\ "issue_or_shipment_date" \notin DOMAIN pf_layers.b) =>
    pf_result["issue_or_shipment_date"].value =
      FirstReported(<<"issue_date", "shipment_date", "etd", "eta">>)

\* C21: compare_docs returns "Aprovado" only for a session in which all
\* three roles have a record, no record has low_ocr_confidence set and no
\* present role lacks a required field; a missing role, a low-confidence
\* record or a missing required field is each enough for "Com divergências".
C21_ApprovedOnlyIfComplete ==
  cmp_pc = "done" =>
    /\ result.status = "Aprovado" =>
         /\ DOMAIN session_docs = DocTypeSet
         /\ \A d \in DOMAIN session_docs : ~session_docs[d].low_ocr_confidence
         /\ \A d \in DOMAIN session_docs :
              \A i \in DOMAIN RequiredFields(d) :
                SessionValue(session_docs, d, RequiredFields(d)[i]) # ""
    /\ ( \/ DOMAIN session_docs # DocTypeSet
         \/ \E d \in DOMAIN session_docs : session_docs[d].low_ocr_confidence
         \/ \E d \in DOMAIN session_docs : UnmetRequired(session_docs, d) # {} )
         => result.status = "Com divergências"

\* three full records that agree, no required field missing, every ratio
\* at 1: the OCR alert for the invoice is the only finding, and the status
\* is "Com divergências"
C21_Witness ==
  /\ cmp_pc = "done"
  /\ DOMAIN session_docs = DocTypeSet
  /\ session_docs["invoice"].low_ocr_confidence
  /\ result.divergences = <<OcrAlert(<<"invoice">>)>>
  /\ \A d \in DocTypeSet :
       /\ ~result.completeness[d].below_minimum
       /\ ~result.completeness[d].below_required_minimum
       /\ result.completeness[d].missing_required_fields = <<>>
  /\ result.status = "Com divergências"

====
